---------------------------- MODULE Spec2Model ----------------------------
(***************************************************************************)
(* Kelemvor's Scales: the boss-vs-party encounter simulator                *)
(* (MainWindow._run_encounter_mc) and the boss-HP auto-tuner               *)
(* (MainWindow._on_auto_tune) of boss_balance_desktop_encounter_v3.        *)
(*                                                                         *)
(* Number representation.                                                  *)
(*   - A median TTK is held in hundredths of a round (4.0 rounds = 400):   *)
(*     numpy's median of integer round indices is a multiple of 0.5, the   *)
(*     target spin box has two decimals, the tolerance is 0.05.            *)
(*   - math.inf is the integer Inf, larger than every finite median.       *)
(*   - A boss HP of the bisection (a float) is a record [i, f] standing    *)
(*     for i + f / 2^16: 16 halvings of integers are exact in it, as they  *)
(*     are in a double.                                                    *)
(*   - A wipe probability is held in thousandths (0.05 = 50).              *)
(***************************************************************************)
EXTENDS Integers, Sequences, FiniteSets, TLC

VARIABLES
    \* AppState (the tables and the options dictionary o)
    party_table, attacks_table, party_dpr_table, party_nova_table, o,
    \* widgets and message boxes
    spn_boss_hp, spn_enc_trials, lbl_ttk_median, lbl_tpk, boxes,
    \* _on_auto_tune: position and locals
    tpc, target, tpk_cap, original_hp, original_trials, quick_trials,
    low, high, med_low, med_high, attempts, iters, med_mid,
    tuned_hp, med, tpk, result,
    \* history: the options before the handler ran, the _run_encounter_mc
    \* calls the tuner issued, the Monte-Carlo deviations its run has met
    o_before, calls, deviations,
    \* _run_encounter_mc: position, round and the per-trial arrays
    epc, rnd, boss_first_flags, boss_hp, pcs_hp, pcs_alive, rider_rem,
    rider_trig, round_pool, step, ttk, tpk_flags, pcs_down_at_victory,
    metrics,
    \* history of the encounter: every trial run on its own with the draws
    \* it met, the phases every trial has gone through in every round, who
    \* the boss has chosen in this round, and the round that last triggered
    \* the rider of a member
    solo, acted, struck, rider_since,
    \* _on_run_mc and _run_mc_sim: the target chosen in the combo box, the
    \* position, the target's row, the rounds done, the attack and trial
    \* being resolved, the per-trial arrays and the totals handed back
    mc_target, mpc, mc_pc, mc_rnd, mc_atk, mc_i, total_damage,
    rider_remaining, round_damage, triggered_rider, mc_totals,
    \* history: the round that last triggered the rider of a trial
    mc_rider_since,
    \* the module-level calculators at work: a damage expression and what
    \* the four evaluations made of it; an armour class, attack bonus and
    \* roll mode and their hit probabilities; a recharge text and its
    \* probability
    dpc, d_text, d_avg, d_avg_crit, d_roll, d_crit,
    hpc, h_ac, h_bonus, h_mode, h_probs,
    rpc, r_text, r_prob,
    \* one roll of the boss resolved the way each simulator resolves it: a
    \* save or an attack, the rider at work or not, armour class, DC, bonus
    \* and the two d20 faces, what either simulator makes of them and what
    \* the calculators say
    kpc, k_kind, k_on, k_ac, k_dc, k_bonus, k_r1, k_r2, k_enc, k_mc, k_ref

cfgVars  == <<party_table, attacks_table, party_dpr_table, party_nova_table>>
uiVars   == <<spn_boss_hp, spn_enc_trials, lbl_ttk_median, lbl_tpk, boxes>>
tuneVars == <<tpc, target, tpk_cap, original_hp, original_trials,
              quick_trials, low, high, med_low, med_high, attempts, iters,
              med_mid, tuned_hp, med, tpk, result, calls, deviations>>
encVars  == <<epc, rnd, boss_first_flags, boss_hp, pcs_hp, pcs_alive,
              rider_rem, rider_trig, round_pool, step, ttk, tpk_flags,
              pcs_down_at_victory, metrics, solo, acted, struck,
              rider_since>>
mcVars   == <<mc_target, mpc, mc_pc, mc_rnd, mc_atk, mc_i, total_damage,
              rider_remaining, round_damage, triggered_rider, mc_totals,
              mc_rider_since>>
rollVars == <<kpc, k_kind, k_on, k_ac, k_dc, k_bonus, k_r1, k_r2, k_enc,
              k_mc, k_ref>>
calcVars == <<dpc, d_text, d_avg, d_avg_crit, d_roll, d_crit,
              hpc, h_ac, h_bonus, h_mode, h_probs, rpc, r_text, r_prob,
              rollVars>>
vars     == <<cfgVars, o, o_before, uiVars, tuneVars, encVars, mcVars,
              calcVars>>

-----------------------------------------------------------------------------
(* Bounds of the model *)

\* Monte-Carlo deviations (a simulated median off the noise-free one) that
\* one tuning run may meet.
MaxNoise == 1

\* trials of a simulation that is followed round by round, trial by trial
NTrials == 2

\* round cap of such an encounter
EncRounds == 2

\* rounds of a single-target simulation (it runs NTrials trials)
McRounds == 2

\* terms of a damage expression evaluated on its own
MaxTerms == 2

-----------------------------------------------------------------------------
(* Program constants *)

Inf == 1000000000

MaxDoublings == 12
MaxBisect == 16
\* abs(med_mid - target) < 0.05, in hundredths of a round
Tolerance == 5
MinHighHp == 10
MinQuickTrials == 3000
SpinHpMax == 9999

Max(a, b) == IF a >= b THEN a ELSE b
Min(a, b) == IF a <= b THEN a ELSE b
Abs(x) == IF x < 0 THEN 0 - x ELSE x

-----------------------------------------------------------------------------
(* d20 mathematics *)

\* a classification under which a natural 1 can hit
classifyNoFumble(r, attack_bonus, ac) ==
    IF r = 20 THEN <<TRUE, TRUE>> ELSE <<r + attack_bonus >= ac, FALSE>>

\* hit_probs.classify: <<is_hit, is_crit>> of the chosen face r
classify(r, attack_bonus, ac) ==
    IF r = 1 THEN <<FALSE, FALSE>>
    ELSE IF r = 20 THEN <<TRUE, TRUE>>
    ELSE <<r + attack_bonus >= ac, FALSE>>

\* the faces hit_probs enumerates: 20 for normal, 400 ordered pairs otherwise
ChosenFaces(mode) ==
    IF mode = "normal" THEN [k \in 1..20 |-> k]
    ELSE [k \in 1..400 |->
            LET r1 == ((k - 1) \div 20) + 1
                r2 == ((k - 1) % 20) + 1
            IN IF mode = "adv" THEN Max(r1, r2) ELSE Min(r1, r2)]

\* hit_probs as counts: <<non-crit hits, crits, faces enumerated>>
hit_probs(ac, attack_bonus, mode) ==
    LET faces == ChosenFaces(mode)
        K == DOMAIN faces
        crit == {k \in K : classify(faces[k], attack_bonus, ac)[2]}
        noncrit == {k \in K : classify(faces[k], attack_bonus, ac)[1]
                              /\ ~classify(faces[k], attack_bonus, ac)[2]}
    IN <<Cardinality(noncrit), Cardinality(crit), Cardinality(K)>>

-----------------------------------------------------------------------------
(* Damage expressions, in the parsed form (sign, dice, mod) that           *)
(* parse_damage_expression hands to the functions below; dice is a         *)
(* sequence of <<count, sides>>.  Averages and hit points of the encounter *)
(* are held in half points, so that (s + 1) / 2 and 0.5 * dmg are exact.   *)

Dmg(sign, dice, mod) == [sign |-> sign, dice |-> dice, mod |-> mod]

RECURSIVE SumDiceAverages(_)
SumDiceAverages(dice) ==
    IF dice = <<>> THEN 0
    ELSE Head(dice)[1] * (Head(dice)[2] + 1) + SumDiceAverages(Tail(dice))

\* average_damage, in half points
average_damage(e) == Max(0, e.sign * (SumDiceAverages(e.dice) + 2 * e.mod))

\* what one dice term can add to the total: the sum of |count| dice, with
\* the maximum of every die added on a crunchy crit, carrying count's sign
TermRolls(count, sides, crit) ==
    IF count = 0 \/ sides <= 0 THEN {0}
    ELSE LET n == Abs(count)
             sg == IF count < 0 THEN 0 - 1 ELSE 1
         IN {sg * ((IF crit THEN n * sides ELSE 0) + v) : v \in n..(n * sides)}

RECURSIVE DiceRolls(_, _)
DiceRolls(dice, crit) ==
    IF dice = <<>> THEN {0}
    ELSE {a + b : a \in TermRolls(Head(dice)[1], Head(dice)[2], crit),
                  b \in DiceRolls(Tail(dice), crit)}

\* the values roll_damage(expr, 1)[0] can take, in whole points
roll_damage(e) == {Max(0, e.sign * (x + e.mod)) : x \in DiceRolls(e.dice, FALSE)}

\* the values roll_damage_crunchy_crit(expr) can take, in whole points
roll_damage_crunchy_crit(e) ==
    {Max(0, e.sign * (x + e.mod)) : x \in DiceRolls(e.dice, TRUE)}

\* the recharge text: a single face k, a range lo-hi, or text int() rejects
\* (empty text included)
RechSingle(k) == [form |-> "single", k |-> k, lo |-> 0, hi |-> 0]
RechRange(lo, hi) == [form |-> "range", k |-> 0, lo |-> lo, hi |-> hi]
RechText == [form |-> "text", k |-> 0, lo |-> 0, hi |-> 0]

\* a parse that gives 0 to a single face outside 2..6
parse_recharge_strict(t) ==
    IF t.form = "range"
    THEN LET lo == Max(1, Min(6, Min(t.lo, t.hi)))
             hi == Max(1, Min(6, Max(t.lo, t.hi)))
         IN hi - lo + 1
    ELSE IF t.form = "single" /\ t.k \in 2..6 THEN 7 - t.k
    ELSE 0

\* parse_recharge, in sixths
parse_recharge(t) ==
    IF t.form = "range"
    THEN LET lo == Max(1, Min(6, Min(t.lo, t.hi)))
             hi == Max(1, Min(6, Max(t.lo, t.hi)))
         IN hi - lo + 1
    ELSE IF t.form = "single" THEN 7 - Max(2, Min(6, t.k))
    ELSE 0

-----------------------------------------------------------------------------
(* AppState *)

SAVE_KEYS == <<"STR", "DEX", "CON", "INT", "WIS", "CHA">>

\* Attack rows that are enabled, in table order
RECURSIVE attacks_enabled_from_table(_)
attacks_enabled_from_table(tbl) ==
    IF tbl = <<>> THEN <<>>
    ELSE LET row == Head(tbl)
             rest == attacks_enabled_from_table(Tail(tbl))
         IN IF row.enabled
            THEN <<[row EXCEPT !.uses_per_round = Max(0, row.uses_per_round)]>>
                 \o rest
            ELSE rest

\* _eff_party_dprs: <<Member, effective DPR>> of every row of the selected
\* table.  A nova row is nova_dpr * (p_non + crit_ratio * p_crit) * uptime,
\* crit ratio and uptime in hundredths, the result floored to a whole point.
NovaEff(r) ==
    LET hp == hit_probs(r.target_ac, r.atk_bonus, r.roll_mode)
    IN (r.nova_dpr * (hp[1] * 100 + r.crit_ratio * hp[2]) * r.uptime)
          \div (hp[3] * 100 * 100)

eff_party_dprs(use_nova, dpr_table, nova_table) ==
    IF use_nova
    THEN [k \in DOMAIN nova_table |->
             <<nova_table[k].Member, NovaEff(nova_table[k])>>]
    ELSE [k \in DOMAIN dpr_table |->
             <<dpr_table[k].Member, dpr_table[k].DPR>>]

\* dict(eff_list).get(nm, 0.0): the last row of that name wins
eff_by_name(eff_list, nm) ==
    LET ks == {k \in DOMAIN eff_list : eff_list[k][1] = nm}
    IN IF ks = {} THEN 0
       ELSE eff_list[CHOOSE k \in ks : \A j \in ks : j <= k][2]

\* the three precondition checks of _run_encounter_mc, in the code's order:
\* the title of the warning shown, or "" when the simulation runs
RejectedNoPartyOnly(party, attacks, dprs, novas, opts) ==
    IF party = <<>> THEN "No Party" ELSE ""

Rejection(party, attacks, dprs, novas, opts) ==
    IF party = <<>> THEN "No Party"
    ELSE IF attacks_enabled_from_table(attacks) = <<>>
            /\ ~(opts.lair_enabled \/ opts.rech_enabled)
         THEN "No Boss Offense"
    ELSE IF eff_party_dprs(opts.enc_use_nova, dprs, novas) = <<>>
         THEN "No DPR"
    ELSE ""

-----------------------------------------------------------------------------
(* The encounter simulation as the auto-tuner sees it.                     *)
(*                                                                         *)
(* simulate_with_hp keeps two numbers of a whole run of _run_encounter_mc: *)
(* the median of the finite TTKs and the wipe probability.  The noise-free *)
(* median is what the party phase gives when every member deals exactly    *)
(* its effective DPR each round and nobody dies: the first round r with    *)
(* r * damage >= HP, or Inf when that is past the round cap.  A real run   *)
(* is a Monte-Carlo estimate and may come out half a round off.            *)
(***************************************************************************)

RECURSIVE SumEff(_, _, _)
SumEff(party, eff_list, j) ==
    IF j > Len(party) THEN 0
    ELSE eff_by_name(eff_list, party[j].Name) + SumEff(party, eff_list, j + 1)

\* party damage that regeneration can turn into healing
PartyRoundDamageUnfloored(total, resist, regen) ==
    (IF resist <= 0 THEN total * 1000000 ELSE (total * 10) \div resist) - regen

\* np.maximum(0.0, dmg_party / max(1e-6, resist) - regen), resist in tenths,
\* the quotient floored to the unit total and regen are in
PartyRoundDamage(total, resist, regen) ==
    Max(0, (IF resist <= 0 THEN total * 1000000
            ELSE (total * 10) \div resist) - regen)

MeanRoundDamage(party, dprs, novas, opts) ==
    LET eff == eff_party_dprs(opts.enc_use_nova, dprs, novas)
    IN PartyRoundDamage(SumEff(party, eff, 1), opts.resist_factor,
                        opts.boss_regen)

NoiseFreeMedian(dmg, opts, hp) ==
    LET r == IF dmg = 0 THEN 0 ELSE (hp + dmg - 1) \div dmg
    IN IF dmg = 0 \/ r > opts.enc_max_rounds THEN Inf ELSE r * 100

\* medians a run can return half a round off the noise-free one; a party
\* that deals no damage never defeats the boss, whatever the draws
NoisyMedians(m, dmg, opts) ==
    LET cap == opts.enc_max_rounds * 100
    IN IF dmg = 0 THEN {}
       ELSE IF m = Inf THEN {cap}
       ELSE ({m - 50, m + 50} \cap (100..cap))
            \cup (IF m = cap THEN {Inf} ELSE {})

\* wipe probabilities a run may report, in thousandths
TpkValues == {0, 50, 80}

-----------------------------------------------------------------------------
(* Boss HP of the bisection: i + f / 2^16 *)

Den == 2^16

Hp(n) == [i |-> n, f |-> 0]

HpLeq(a, b) == a.i < b.i \/ (a.i = b.i /\ a.f <= b.f)

\* high *= 2.0
HpDouble(a) ==
    LET s == 2 * a.f
    IN [i |-> 2 * a.i + (s \div Den), f |-> s % Den]

\* 0.5 * (low + high)
HpMid(a, b) ==
    LET sf == a.f + b.f
        si == a.i + b.i + (sf \div Den)
        rf == sf % Den
    IN [i |-> si \div 2, f |-> (rf + (si % 2) * Den) \div 2]

\* Python's round(): to the nearest integer, a tie to the even one
RoundHalfEven(a) ==
    IF 2 * a.f < Den THEN a.i
    ELSE IF 2 * a.f > Den THEN a.i + 1
    ELSE IF a.i % 2 = 0 THEN a.i ELSE a.i + 1

\* int(max(1, round(hp))) of simulate_with_hp
SimHp(a) == Max(1, RoundHalfEven(a))


-----------------------------------------------------------------------------
(* Configurations *)

DEFAULT_OPTIONS ==
    [ mode_select |-> "normal", spread_targets |-> 1,
      thp_expr |-> Dmg(1, << <<1, 6>> >>, 4),
      lair_enabled |-> FALSE, lair_avg |-> 6, lair_targets |-> 2,
      lair_every_n |-> 2,
      rech_enabled |-> FALSE, recharge_text |-> RechRange(5, 6),
      rech_avg |-> 22, rech_targets |-> 1,
      rider_mode |-> "none", rider_duration |-> 1, rider_melee_only |-> TRUE,
      boss_hp |-> 150, resist_factor |-> 10, boss_regen |-> 0,
      enc_trials |-> 10000, enc_max_rounds |-> 12, enc_use_nova |-> FALSE,
      initiative_mode |-> "random", mc_rounds |-> 3, mc_trials |-> 10000,
      tune_target_median |-> 400, tune_tpk_cap |-> 50 ]

PC(nm, ac, hp) ==
    [ Name |-> nm, AC |-> ac, HP |-> hp,
      STR |-> 0, DEX |-> 2, CON |-> 2, INT |-> 0, WIS |-> 1, CHA |-> 0 ]

Atk(nm, kind, bonus, dc, expr, uses, melee, en) ==
    [ name |-> nm, kind |-> kind, attack_bonus |-> bonus, dc |-> dc,
      save_stat |-> "DEX", damage_expr |-> expr, uses_per_round |-> uses,
      is_melee |-> melee, enabled |-> en ]

DefaultParty == << PC("Fighter", 18, 40), PC("Rogue", 16, 35) >>
DefaultAttacks ==
    << Atk("Bite", "attack", 7, 0, Dmg(1, << <<2, 10>> >>, 5), 1, TRUE, TRUE),
       Atk("Fire Breath", "save", 0, 15, Dmg(1, << <<8, 6>> >>, 0), 1, FALSE,
           FALSE) >>
DprRow(nm, d) == [ Member |-> nm, DPR |-> d ]
NovaRow(nm, d) ==
    [ Member |-> nm, nova_dpr |-> d, atk_bonus |-> 8, roll_mode |-> "normal",
      target_ac |-> 17, crit_ratio |-> 150, uptime |-> 90 ]

Config(party, attacks, dprs, novas, opts) ==
    [ party |-> party, attacks |-> attacks, dprs |-> dprs, novas |-> novas,
      o |-> opts ]

\* The configurations a tuning run starts from.
TuneConfigs ==
    LET D == DEFAULT_OPTIONS
        one(d) == << DprRow("Fighter", d) >>
        std(dprs, opts) == Config(DefaultParty, DefaultAttacks, dprs, <<>>, opts)
    IN { \* the shipped defaults: 15 damage a round against 150 HP
         std(one(15), D),
         std(one(15), [D EXCEPT !.tune_tpk_cap = 0, !.enc_trials = 1000]),
         \* 30 damage a round from 10 HP: the high bound doubles 10 -> 160
         std(one(30), [D EXCEPT !.boss_hp = 10]),
         std(one(30), [D EXCEPT !.boss_hp = 1]),
         std(one(39), [D EXCEPT !.boss_hp = 5]),
         std(one(27), [D EXCEPT !.boss_hp = 20]),
         std(one(15), [D EXCEPT !.boss_hp = 160]),
         Config(DefaultParty, DefaultAttacks, <<>>, << NovaRow("Rogue", 62) >>,
                [D EXCEPT !.boss_hp = 7, !.enc_use_nova = TRUE]),
         \* the party deals no damage
         std(one(0), D),
         std(<< DprRow("Bard", 15) >>, D),
         std(one(15), [D EXCEPT !.boss_regen = 20]),
         \* a target past the round cap
         std(one(15), [D EXCEPT !.enc_max_rounds = 3]),
         \* targets of 1.0 and 3.52 rounds
         std(one(15), [D EXCEPT !.tune_target_median = 100]),
         std(one(15), [D EXCEPT !.tune_target_median = 352]),
         \* a target of 1.2 rounds against a party that fells 20480 HP a round
         std(one(30000), [D EXCEPT !.boss_hp = 10, !.tune_target_median = 120]),
         \* heavy hitters: the high bound is doubled 12 times
         std(one(7000), [D EXCEPT !.boss_hp = 10]),
         std(one(1000000), [D EXCEPT !.boss_hp = 10]),
         std(one(5000), [D EXCEPT !.boss_hp = 9999]),
         \* configurations _run_encounter_mc rejects
         Config(<<>>, DefaultAttacks, one(15), <<>>, D),
         Config(DefaultParty, <<>>, one(15), <<>>, D),
         Config(DefaultParty, DefaultAttacks, <<>>, <<>>, D),
         Config(DefaultParty, DefaultAttacks, one(15), <<>>,
                [D EXCEPT !.enc_use_nova = TRUE]) }

-----------------------------------------------------------------------------
(* MainWindow._on_auto_tune *)

\* _pull_all_ui, as far as the boss HP and the trial count go
pull_all_ui(opts) ==
    [opts EXCEPT !.boss_hp = spn_boss_hp, !.enc_trials = spn_enc_trials]

\* What one call of _run_encounter_mc under options opts can hand back:
\* none (rejected), or a median and a wipe probability.  The wipe probability
\* of a search run is assigned to tpk_low, tpk_high or _tpk_mid and never
\* read, so only the final run and the refresh draw one (withTpk).
Outcomes(opts, withTpk) ==
    LET why == Rejection(party_table, attacks_table, party_dpr_table,
                         party_nova_table, opts)
        dmg == MeanRoundDamage(party_table, party_dpr_table,
                               party_nova_table, opts)
        m == NoiseFreeMedian(dmg, opts, opts.boss_hp)
        ps == IF withTpk THEN TpkValues ELSE {0}
    IN IF why # ""
       THEN {[none |-> TRUE, med |-> Inf, tpk |-> 1000, cost |-> 0, box |-> {why}]}
       ELSE {[none |-> FALSE, med |-> m, tpk |-> p, cost |-> 0, box |-> {}]
                : p \in ps}
            \cup (IF deviations < MaxNoise
                  THEN {[none |-> FALSE, med |-> x, tpk |-> p, cost |-> 1,
                         box |-> {}] : x \in NoisyMedians(m, dmg, opts),
                                       p \in ps}
                  ELSE {})

\* simulate_with_hp: the options it leaves behind
SimOptions(opts, hp, trials) ==
    [opts EXCEPT !.boss_hp = SimHp(hp), !.enc_trials = trials]

Call(kind, opts, r) ==
    [kind |-> kind, hp |-> opts.boss_hp, trials |-> opts.enc_trials,
     med |-> r.med, tpk |-> r.tpk]

\* quick_trials = max(3000, int(original_trials * 0.4))
QuickTrials(n) == Max(MinQuickTrials, (n * 4) \div 10)

\* the options left as the last search simulation set them
KeepSearchOptions(opts) == opts

\* o["boss_hp"] = int(original_hp); o["enc_trials"] = original_trials
Restore(opts) ==
    [opts EXCEPT !.boss_hp = original_hp, !.enc_trials = original_trials]

\* lines 1296-1319: pull the UI, read the locals, simulate the low bound
AutoTuneBegin ==
    /\ tpc = "idle"
    /\ LET o1 == pull_all_ui(o)
           q == QuickTrials(o1.enc_trials)
           o2 == SimOptions(o1, Hp(1), q)
       IN \E r \in Outcomes(o2, FALSE) :
            /\ target' = o1.tune_target_median
            /\ tpk_cap' = o1.tune_tpk_cap
            /\ original_hp' = o1.boss_hp
            /\ original_trials' = o1.enc_trials
            /\ quick_trials' = q
            /\ low' = Hp(1)
            /\ high' = Hp(Max(MinHighHp, o1.boss_hp))
            /\ med_low' = r.med
            /\ o' = o2
            /\ boxes' = boxes \cup r.box
            /\ calls' = Append(calls, Call("low", o2, r))
            /\ deviations' = deviations + r.cost
    /\ tpc' = "sim_high"
    /\ UNCHANGED <<cfgVars, o_before, encVars, mcVars, calcVars, spn_boss_hp, spn_enc_trials, lbl_ttk_median,
                   lbl_tpk, med_high, attempts, iters, med_mid, tuned_hp,
                   med, tpk, result>>

\* line 1320: simulate the high bound
SimHigh ==
    /\ tpc = "sim_high"
    /\ LET o2 == SimOptions(o, high, quick_trials)
       IN \E r \in Outcomes(o2, FALSE) :
            /\ med_high' = r.med
            /\ o' = o2
            /\ boxes' = boxes \cup r.box
            /\ calls' = Append(calls, Call("high", o2, r))
            /\ deviations' = deviations + r.cost
    /\ tpc' = "escalate"
    /\ UNCHANGED <<cfgVars, o_before, encVars, mcVars, calcVars, spn_boss_hp, spn_enc_trials, lbl_ttk_median,
                   lbl_tpk, target, tpk_cap, original_hp, original_trials,
                   quick_trials, low, high, med_low, attempts, iters,
                   med_mid, tuned_hp, med, tpk, result>>

\* lines 1324-1327: one pass of the doubling loop
\* a doubling loop without its attempt limit
EscalateUncapped == med_high < target

EscalateCond == med_high < target /\ attempts < MaxDoublings

Escalate ==
    /\ tpc = "escalate"
    /\ EscalateCond
    /\ LET h2 == HpDouble(high)
           o2 == SimOptions(o, h2, quick_trials)
       IN \E r \in Outcomes(o2, FALSE) :
            /\ high' = h2
            /\ med_high' = r.med
            /\ o' = o2
            /\ boxes' = boxes \cup r.box
            /\ calls' = Append(calls, Call("double", o2, r))
            /\ deviations' = deviations + r.cost
    /\ attempts' = attempts + 1
    /\ UNCHANGED <<cfgVars, o_before, encVars, mcVars, calcVars, spn_boss_hp, spn_enc_trials, lbl_ttk_median,
                   lbl_tpk, tpc, target, tpk_cap, original_hp,
                   original_trials, quick_trials, low, med_low, iters,
                   med_mid, tuned_hp, med, tpk, result>>

\* a bracket test that looks at the high bound only
BracketedAbove(ml, t, mh) == t <= mh

\* lines 1334: the target is bracketed
Bracketed(ml, t, mh) == ml <= t /\ t <= mh

\* lines 1329-1340: re-simulate the low bound when its median is above the
\* target, then either abort (warning, options restored) or go on to bisect
CheckBracket ==
    /\ tpc = "escalate"
    /\ ~EscalateCond
    /\ LET again == med_low > target
           o2 == IF again THEN SimOptions(o, Hp(1), quick_trials) ELSE o
       IN \E r \in (IF again THEN Outcomes(o2, FALSE)
                    ELSE {[none |-> FALSE, med |-> med_low, tpk |-> 0,
                           cost |-> 0, box |-> {}]}) :
            /\ low' = IF again THEN Hp(1) ELSE low
            /\ med_low' = r.med
            /\ calls' = IF again THEN Append(calls, Call("resim", o2, r))
                        ELSE calls
            /\ deviations' = deviations + r.cost
            /\ IF Bracketed(r.med, target, med_high)
               THEN /\ tpc' = "bisect"
                    /\ o' = o2
                    /\ boxes' = boxes \cup r.box
                    /\ result' = result
               ELSE /\ tpc' = "done"
                    /\ o' = Restore(o2)
                    /\ boxes' = boxes \cup r.box \cup {"Auto-Tune Warning"}
                    /\ result' = "infeasible"
    /\ UNCHANGED <<cfgVars, o_before, encVars, mcVars, calcVars, spn_boss_hp, spn_enc_trials, lbl_ttk_median,
                   lbl_tpk, target, tpk_cap, original_hp, original_trials,
                   quick_trials, high, med_high, attempts, iters, med_mid,
                   tuned_hp, med, tpk>>

\* a midpoint exactly at the target replaces the low bound
TakeHighStrict(mm, t) == mm > t

\* the comparison of the midpoint turned around
TakeHighBelow(mm, t) == mm <= t

\* lines 1346-1349: the bound the midpoint replaces
TakeHigh(mm, t) == mm >= t

\* lines 1350-1351: the early exit of the bisection
CloseEnough(mm, t) == Abs(mm - t) < Tolerance

\* lines 1343-1351: one pass of the bisection loop
Bisect ==
    /\ tpc = "bisect"
    /\ LET mid == HpMid(low, high)
           o2 == SimOptions(o, mid, quick_trials)
       IN \E r \in Outcomes(o2, FALSE) :
            /\ med_mid' = r.med
            /\ IF TakeHigh(r.med, target)
               THEN /\ high' = mid /\ med_high' = r.med
                    /\ UNCHANGED <<low, med_low>>
               ELSE /\ low' = mid /\ med_low' = r.med
                    /\ UNCHANGED <<high, med_high>>
            /\ tpc' = IF CloseEnough(r.med, target) \/ iters + 1 = MaxBisect
                      THEN "final" ELSE "bisect"
            /\ o' = o2
            /\ boxes' = boxes \cup r.box
            /\ calls' = Append(calls, Call("bisect", o2, r))
            /\ deviations' = deviations + r.cost
    /\ iters' = iters + 1
    /\ UNCHANGED <<cfgVars, o_before, encVars, mcVars, calcVars, spn_boss_hp, spn_enc_trials, lbl_ttk_median,
                   lbl_tpk, target, tpk_cap, original_hp, original_trials,
                   quick_trials, attempts, tuned_hp, med, tpk, result>>

\* the high bound rounded up
CeilHp(h) == IF h.f = 0 THEN h.i ELSE h.i + 1

\* line 1353: tuned_hp = int(round(high))
TunedHp(h) == RoundHalfEven(h)

\* an HP taken down by one when the wipe probability is above the cap
SpinSetUnderCap(v) ==
    Max(1, Min(SpinHpMax, IF tpk' > tpk_cap THEN v - 1 ELSE v))

\* QSpinBox.setValue keeps the value inside the box's range 1..9999
SpinSet(v) == Max(1, Min(SpinHpMax, v))

\* line 1371: tpk > tpk_cap + 1e-9 (both are multiples of a thousandth)
CapExceeded(p, cap) == p > cap

\* lines 1353-1378: the final simulation with the full trial count and the
\* report of its median and wipe probability
FinalRun ==
    /\ tpc = "final"
    /\ LET t == TunedHp(high)
           o2 == [o EXCEPT !.boss_hp = t, !.enc_trials = original_trials]
       IN \E r \in Outcomes(o2, TRUE) :
            /\ tuned_hp' = t
            /\ calls' = Append(calls, Call("final", o2, r))
            /\ deviations' = deviations + r.cost
            /\ IF r.none
               THEN /\ boxes' = boxes \cup r.box \cup {"Auto-Tune Error"}
                    /\ o' = Restore(o2)
                    /\ tpc' = "done"
                    /\ result' = "error"
                    /\ UNCHANGED <<med, tpk, spn_boss_hp, lbl_ttk_median,
                                   lbl_tpk>>
               ELSE /\ med' = r.med
                    /\ tpk' = r.tpk
                    /\ spn_boss_hp' = SpinSet(t)
                    /\ lbl_ttk_median' = r.med
                    /\ lbl_tpk' = r.tpk
                    /\ boxes' = boxes \cup
                                (IF CapExceeded(r.tpk, tpk_cap)
                                 THEN {"TPK Cap Not Met"} ELSE {})
                    /\ o' = o2
                    /\ tpc' = "refresh"
                    /\ result' = result
    /\ UNCHANGED <<cfgVars, o_before, encVars, mcVars, calcVars, spn_enc_trials, target, tpk_cap, original_hp,
                   original_trials, quick_trials, low, high, med_low,
                   med_high, attempts, iters, med_mid>>

\* line 1381 and lines 1062-1076: _on_run_encounter refreshes the labels
\* from one more simulation of the options pulled from the widgets
Refresh ==
    /\ tpc = "refresh"
    /\ LET o2 == pull_all_ui(o)
       IN \E r \in Outcomes(o2, TRUE) :
            /\ o' = o2
            /\ calls' = Append(calls, Call("refresh", o2, r))
            /\ deviations' = deviations + r.cost
            /\ IF r.none THEN
                    /\ boxes' = boxes \cup r.box
                    /\ UNCHANGED <<lbl_ttk_median, lbl_tpk>>
               ELSE IF r.med = Inf THEN
                    /\ boxes' = boxes \cup {"No Outcome"}
                    /\ UNCHANGED <<lbl_ttk_median, lbl_tpk>>
               ELSE /\ boxes' = boxes
                    /\ lbl_ttk_median' = r.med
                    /\ lbl_tpk' = r.tpk
    /\ tpc' = "done"
    /\ result' = "tuned"
    /\ UNCHANGED <<cfgVars, o_before, encVars, mcVars, calcVars, spn_boss_hp, spn_enc_trials, target, tpk_cap,
                   original_hp, original_trials, quick_trials, low, high,
                   med_low, med_high, attempts, iters, med_mid, tuned_hp,
                   med, tpk>>

\* no encounter simulation of its own is in progress
EncIdle ==
    /\ epc = "idle" /\ rnd = 0
    /\ boss_first_flags = <<>> /\ boss_hp = <<>> /\ pcs_hp = <<>>
    /\ pcs_alive = <<>> /\ rider_rem = <<>> /\ rider_trig = <<>>
    /\ rider_since = <<>>
    /\ round_pool = <<>> /\ step = 0 /\ ttk = <<>> /\ tpk_flags = <<>>
    /\ pcs_down_at_victory = <<>>
    /\ metrics = [none |-> TRUE]
    /\ solo = <<>> /\ acted = <<>> /\ struck = <<>>

\* no roll has been resolved on its own
RollIdle ==
    /\ kpc = "idle" /\ k_kind = "save" /\ k_on = FALSE
    /\ k_ac = 0 /\ k_dc = 0 /\ k_bonus = 0 /\ k_r1 = 1 /\ k_r2 = 1
    /\ k_enc = {} /\ k_mc = {} /\ k_ref = <<>>

\* no calculator has been called on its own
CalcIdle ==
    /\ RollIdle
    /\ dpc = "idle" /\ d_text = <<>>
    /\ d_avg = 0 - 1 /\ d_avg_crit = 0 - 1 /\ d_roll = 0 - 1 /\ d_crit = 0 - 1
    /\ hpc = "idle" /\ h_ac = 0 /\ h_bonus = 0 /\ h_mode = "normal"
    /\ h_probs = <<>>
    /\ rpc = "idle" /\ r_text = <<>> /\ r_prob = 0 - 1

\* no single-target simulation has been run
McIdle ==
    /\ mpc = "idle" /\ mc_pc = <<>>
    /\ mc_rnd = 0 /\ mc_atk = 0 /\ mc_i = 0
    /\ total_damage = <<>> /\ rider_remaining = <<>>
    /\ mc_rider_since = <<>>
    /\ round_damage = <<>> /\ triggered_rider = <<>>
    /\ mc_totals = <<>>

\* the application with the profile c loaded and the widgets refreshed
Loaded(c) ==
    /\ party_table = c.party
    /\ attacks_table = c.attacks
    /\ party_dpr_table = c.dprs
    /\ party_nova_table = c.novas
    /\ o = c.o
    /\ spn_boss_hp = c.o.boss_hp
    /\ spn_enc_trials = c.o.enc_trials
    /\ lbl_ttk_median = 0 /\ lbl_tpk = 0 /\ boxes = {}
    /\ o_before = o

\* the auto-tuner has not been started
TuneIdle ==
    /\ tpc = "idle"
    /\ target = 0 /\ tpk_cap = 0 /\ original_hp = 0 /\ original_trials = 0
    /\ quick_trials = 0
    /\ low = Hp(0) /\ high = Hp(0)
    /\ med_low = 0 /\ med_high = 0 /\ attempts = 0 /\ iters = 0
    /\ med_mid = 0 /\ tuned_hp = 0 /\ med = 0 /\ tpk = 0
    /\ result = ""
    /\ calls = <<>>
    /\ deviations = 0

InitTune ==
    /\ \E c \in TuneConfigs : Loaded(c)
    /\ TuneIdle
    /\ EncIdle
    /\ McIdle /\ mc_target = "Fighter"
    /\ CalcIdle

NextTune ==
    \/ AutoTuneBegin
    \/ SimHigh
    \/ Escalate
    \/ CheckBracket
    \/ Bisect
    \/ FinalRun
    \/ Refresh

SpecTune == InitTune /\ [][NextTune]_vars

-----------------------------------------------------------------------------
(* MainWindow._run_encounter_mc, one action per phase of a round.  The     *)
(* per-trial arrays are functions of the trial index; hit points are in    *)
(* half points.                                                            *)

Trials == 1..o.enc_trials
Members == 1..Len(party_table)

KSubsets(S, k) == {T \in SUBSET S : Cardinality(T) = k}

\* every way of taking one element from each set of a sequence of sets
RECURSIVE SeqProduct(_)
SeqProduct(ss) ==
    IF ss = <<>> THEN {<<>>}
    ELSE {<<x>> \o r : x \in Head(ss), r \in SeqProduct(Tail(ss))}

RECURSIVE SortedSeq(_)
SortedSeq(S) ==
    IF S = {} THEN <<>>
    ELSE LET m == CHOOSE x \in S : \A y \in S : x <= y
         IN <<m>> \o SortedSeq(S \ {m})

\* _gamma_rng(mean, cv): 0.0 when the mean is not positive, a positive real
\* otherwise; the draws followed are half a point and the mean itself
GammaDraws(mean) == IF mean <= 0 THEN {0} ELSE {1, 2 * mean}

\* eff_means[j]: the effective DPR under the member's name, 0.0 without one
eff_means(j) ==
    eff_by_name(eff_party_dprs(o.enc_use_nova, party_dpr_table,
                               party_nova_table), party_table[j].Name)

thp_avg == Max(0, average_damage(o.thp_expr))

\* ~np.isfinite(ttk)
Ongoing == {t \in Trials : ttk[t] = Inf}

Alive(t) == {j \in Members : pcs_alive[t][j]}

\* the trials that were ongoing when the round began
BossOngoingStale == {t \in Trials : ttk[t] = Inf \/ ttk[t] = rnd}

\* line 1170: the ongoing trials, taken anew before the boss phase
BossOngoing == Ongoing

\* a round loop that runs one round past the cap
LoopOneMore == rnd <= o.enc_max_rounds + 1 /\ Ongoing # {}

\* lines 1149-1151: the round loop goes on
LoopContinues == rnd <= o.enc_max_rounds /\ Ongoing # {}

\* an initiative that is drawn whatever the mode
boss_goes_first_drawn == [Trials -> BOOLEAN]

\* boss_goes_first(trials)
boss_goes_first ==
    IF o.initiative_mode = "boss_first" THEN {[t \in Trials |-> TRUE]}
    ELSE IF o.initiative_mode = "party_first" THEN {[t \in Trials |-> FALSE]}
    ELSE [Trials -> BOOLEAN]

RECURSIVE SumSeq(_)
SumSeq(q) == IF q = <<>> THEN 0 ELSE Head(q) + SumSeq(Tail(q))

\* the draws of the members of trial t in the flattened draws d
TrialRow(d, t) ==
    [j \in Members |-> d[(t - 1) * Len(party_table) + j]]

\* lines 1129-1142 for one trial
TrialInit ==
    [ boss_hp |-> 2 * o.boss_hp,
      pcs_hp |-> [j \in Members |-> 2 * party_table[j].HP],
      pcs_alive |-> [j \in Members |-> TRUE],
      rider_rem |-> [j \in Members |-> 0],
      rider_trig |-> [j \in Members |-> FALSE],
      ttk |-> Inf, tpk |-> FALSE, down |-> 0 ]

\* the state of trial t in the arrays
TrialState(t) ==
    [ boss_hp |-> boss_hp[t], pcs_hp |-> pcs_hp[t],
      pcs_alive |-> pcs_alive[t], rider_rem |-> rider_rem[t],
      ttk |-> ttk[t], tpk |-> tpk_flags[t],
      down |-> pcs_down_at_victory[t] ]

\* lines 1157-1168 (1269-1281) for one ongoing trial in round r: the draws
\* of its members strike its boss
TrialParty(s, row, r) ==
    LET hp1 == s.boss_hp - PartyRoundDamage(SumSeq(row), o.resist_factor,
                                            2 * o.boss_regen)
    IN [s EXCEPT !.boss_hp = hp1,
                 !.ttk = IF hp1 <= 0 THEN r ELSE @,
                 !.down = IF hp1 <= 0
                          THEN Cardinality({j \in Members : ~s.pcs_alive[j]})
                          ELSE @]

\* lines 1230-1233 for one trial: the strike x lands on the member tgt
TrialStrike(s, tgt, x) ==
    LET hp1 == s.pcs_hp[tgt] - Max(0, x.dealt - thp_avg)
    IN [s EXCEPT !.pcs_hp[tgt] = hp1,
                 !.pcs_alive[tgt] = IF hp1 <= 0 THEN FALSE ELSE @,
                 !.rider_trig[tgt] = IF x.trig THEN TRUE ELSE @]

\* lines 1241-1246 (1255-1260) for one trial: the area draws h, -1 for a
\* member not chosen
TrialArea(s, h) ==
    LET hp1 == [j \in Members |->
                   IF h[j] < 0 THEN s.pcs_hp[j]
                   ELSE s.pcs_hp[j] - Max(0, h[j] - thp_avg)]
    IN [s EXCEPT !.pcs_hp = hp1,
                 !.pcs_alive = [j \in Members |->
                                   IF h[j] >= 0 /\ hp1[j] <= 0 THEN FALSE
                                   ELSE s.pcs_alive[j]]]

\* lines 1262-1265 for one ongoing trial
TrialRoundEnd(s) ==
    [s EXCEPT !.rider_rem = [j \in Members |->
                                IF s.rider_trig[j] THEN o.rider_duration
                                ELSE Max(0, s.rider_rem[j] - 1)],
              !.tpk = @ \/ (\A j \in Members : ~s.pcs_alive[j])]

\* one step of the trials run on their own: a trial that is over is no
\* longer touched, an ongoing one moves to nxt[t]
SoloStep(nxt) ==
    solo' = [t \in Trials |->
                IF solo[t].ttk = Inf THEN nxt[t] ELSE solo[t]]

\* the trials of T have gone through the phase ph in this round
Acted(T, ph) ==
    acted' = [t \in Trials |->
                 IF t \in T THEN [acted[t] EXCEPT ![rnd] = Append(@, ph)]
                 ELSE acted[t]]

encFrame == <<cfgVars, o, o_before, spn_boss_hp, spn_enc_trials,
              lbl_ttk_median, lbl_tpk, tuneVars, mcVars, calcVars>>

\* lines 1101-1142: the three checks, then the per-trial state
RunEncounterMC ==
    /\ epc = "idle"
    /\ LET why == Rejection(party_table, attacks_table, party_dpr_table,
                            party_nova_table, o)
       IN IF why # ""
          THEN /\ boxes' = boxes \cup {why}
               /\ epc' = "rejected"
               /\ UNCHANGED <<rnd, boss_hp, pcs_hp, pcs_alive, rider_rem, rider_since, ttk,
                              tpk_flags, pcs_down_at_victory, solo, acted, struck>>
          ELSE /\ boxes' = boxes
               /\ epc' = "round"
               /\ rnd' = 1
               /\ boss_hp' = [t \in Trials |-> 2 * o.boss_hp]
               /\ pcs_hp' = [t \in Trials |->
                                [j \in Members |-> 2 * party_table[j].HP]]
               /\ pcs_alive' = [t \in Trials |-> [j \in Members |-> TRUE]]
               /\ rider_rem' = [t \in Trials |-> [j \in Members |-> 0]]
               /\ rider_since' = [t \in Trials |-> [j \in Members |-> 0]]
               /\ ttk' = [t \in Trials |-> Inf]
               /\ tpk_flags' = [t \in Trials |-> FALSE]
               /\ pcs_down_at_victory' = [t \in Trials |-> 0]
               /\ solo' = [t \in Trials |-> TrialInit]
               /\ acted' = [t \in Trials |->
                               [r \in 1..o.enc_max_rounds |-> <<>>]]
               /\ struck' = [t \in Trials |-> <<>>]
    /\ UNCHANGED <<encFrame, boss_first_flags, rider_trig, round_pool, step,
                   metrics>>

\* lines 1149-1153: a new round draws who goes first
RoundTop ==
    /\ epc = "round"
    /\ LoopContinues
    /\ boss_first_flags' \in boss_goes_first
    /\ epc' = "party_first"
    /\ UNCHANGED <<encFrame, boxes, rnd, boss_hp, pcs_hp, pcs_alive,
                   rider_rem, rider_since, rider_trig, round_pool, step, ttk, tpk_flags,
                   pcs_down_at_victory, metrics, solo, acted, struck>>

\* a mask under which the dead keep striking
alive_mask_all(mask, t, j) == t \in mask

\* lines 1159 and 1272: member j strikes in the trials under the mask in
\* which it is alive
alive_mask(mask, t, j) == t \in mask /\ pcs_alive[t][j]

\* the draws of one party phase, <<trial, member>> flattened: a draw for
\* every living member of a trial under the mask
PartyDrawSets(mask) ==
    LET P == Len(party_table)
    IN [k \in 1..(o.enc_trials * P) |->
           LET t == ((k - 1) \div P) + 1
               j == ((k - 1) % P) + 1
           IN IF alive_mask(mask, t, j)
              THEN GammaDraws(eff_means(j)) ELSE {0}]

\* a sum that pools the draws of every trial
RECURSIVE RowSumPooled(_, _, _)
RowSumPooled(d, t, j) ==
    IF j > Len(d) THEN 0 ELSE d[j] + RowSumPooled(d, t, j + 1)

RECURSIVE RowSum(_, _, _)
RowSum(d, t, j) ==
    IF j > Len(party_table) THEN 0
    ELSE d[(t - 1) * Len(party_table) + j] + RowSum(d, t, j + 1)

\* a party phase that every ongoing trial goes through, whoever goes first
PartyMaskAll(bf) == Ongoing

\* history: struck[t] lists, for the boss phase of this round of trial t,
\* who was chosen by what and who was alive at that moment
Chosen(by, t, who) == [by |-> by, who |-> who, living |-> Alive(t)]

\* lines 1155 and 1268: the ongoing trials whose initiative flag is bf
PartyMask(bf) == {t \in Ongoing : boss_first_flags[t] = bf}

\* a victory recorded anew in every party phase that finds the boss down
newly_dead_any(mask, hp1) == {t \in Trials : hp1[t] <= 0}

\* lines 1166 and 1279: the trials under the mask whose boss is down and
\* whose TTK is not yet recorded
newly_dead(mask, hp1) == {t \in mask : hp1[t] <= 0 /\ ttk[t] = Inf}

\* lines 1155-1168 and 1267-1281: the party strikes the boss in the ongoing
\* trials whose initiative flag is bf
PartyPhase(bf) ==
    LET mask == PartyMask(bf)
    IN IF mask = {}
       THEN UNCHANGED <<boss_hp, ttk, pcs_down_at_victory, solo, acted>>
       ELSE \E d \in SeqProduct(PartyDrawSets(mask)) :
              LET own(z, t) == IF boss_first_flags[t] = bf
                               THEN TrialParty(z, TrialRow(d, t), rnd) ELSE z
                  dmg(t) == PartyRoundDamage(RowSum(d, t, 1), o.resist_factor,
                                             2 * o.boss_regen)
                  hp1 == [t \in Trials |->
                             IF t \in mask THEN boss_hp[t] - dmg(t)
                             ELSE boss_hp[t]]
                  dead == newly_dead(mask, hp1)
              IN /\ boss_hp' = hp1
                 /\ ttk' = [t \in Trials |->
                               IF t \in dead THEN rnd ELSE ttk[t]]
                 /\ pcs_down_at_victory' =
                       [t \in Trials |->
                           IF t \in dead
                           THEN Cardinality(Members \ Alive(t))
                           ELSE pcs_down_at_victory[t]]
                 /\ SoloStep([t \in Trials |-> own(solo[t], t)])
                 /\ Acted(mask, "party")

PartyFirst ==
    /\ epc = "party_first"
    /\ PartyPhase(FALSE)
    /\ epc' = "boss"
    /\ UNCHANGED <<encFrame, boxes, rnd, boss_first_flags, pcs_hp, pcs_alive,
                   rider_rem, rider_since, rider_trig, round_pool, step, tpk_flags,
                   metrics, struck>>

PartyAfter ==
    /\ epc = "party_after"
    /\ PartyPhase(TRUE)
    /\ rnd' = rnd + 1
    /\ epc' = "round"
    /\ UNCHANGED <<encFrame, boxes, boss_first_flags, pcs_hp, pcs_alive,
                   rider_rem, rider_since, rider_trig, round_pool, step, tpk_flags,
                   metrics, struck>>

\* lines 1172-1178: an armour class and the roll mode, the rider at work
\* (on) or not
ac_under_rider(ac, on) ==
    IF o.rider_mode = "-2 AC next round" /\ on
    THEN Max(1, ac - 2) ELSE ac

mode_under_rider(on) ==
    IF o.rider_mode = "grant advantage on melee next round" /\ on
    THEN "adv" ELSE o.mode_select

current_ac(t, j) == ac_under_rider(party_table[j].AC, rider_rem[t][j] > 0)

current_mode(t, j) == mode_under_rider(rider_rem[t][j] > 0)

\* lines 1170-1188: the boss phase is skipped when no trial is ongoing;
\* otherwise the rider triggers are cleared and every ongoing trial with a
\* living member draws its pool of min(spread_targets, living) members
BossBegin ==
    /\ epc = "boss"
    /\ struck' = [t \in Trials |-> <<>>]
    /\ IF BossOngoing = {}
       THEN /\ epc' = "party_after"
            /\ UNCHANGED <<rider_trig, round_pool, step, solo, acted>>
       ELSE /\ epc' = "attacks"
            /\ LET own(z, t) ==
                       [z EXCEPT !.rider_trig = [j \in Members |-> FALSE]]
               IN SoloStep([t \in Trials |-> own(solo[t], t)])
            /\ Acted(BossOngoing, "boss")
            /\ rider_trig' = [t \in Trials |-> [j \in Members |-> FALSE]]
            /\ round_pool' \in SeqProduct(
                  [t \in Trials |->
                      IF t \in BossOngoing /\ Alive(t) # {}
                      THEN KSubsets(Alive(t),
                                    Min(Max(1, o.spread_targets),
                                        Cardinality(Alive(t))))
                      ELSE {{}}])
            /\ step' = 1
    /\ UNCHANGED <<encFrame, boxes, rnd, boss_first_flags, boss_hp, pcs_hp,
                   pcs_alive, rider_rem, rider_since, ttk, tpk_flags, pcs_down_at_victory,
                   metrics>>

\* lines 1190-1193: the order of the strikes of one boss phase: for every
\* enabled attack, for every use, for every ongoing trial
ActiveAttacks == attacks_enabled_from_table(attacks_table)

RECURSIVE Repeat(_, _)
Repeat(block, n) == IF n <= 0 THEN <<>> ELSE block \o Repeat(block, n - 1)

RECURSIVE StepsFrom(_)
StepsFrom(ai) ==
    IF ai > Len(ActiveAttacks) THEN <<>>
    ELSE LET OT == SortedSeq(BossOngoing)
         IN Repeat([k \in 1..Len(OT) |-> [atk |-> ai, t |-> OT[k]]],
                   ActiveAttacks[ai].uses_per_round)
            \o StepsFrom(ai + 1)

AttackSteps == StepsFrom(1)

\* lines 1217-1221 and 1025-1028: the face an attack roll is read from
chosen_roll(mode, r1, r2) ==
    IF mode = "adv" THEN Max(r1, r2)
    ELSE IF mode = "dis" THEN Min(r1, r2) ELSE r1

ChosenRolls(mode) == {chosen_roll(mode, r1, r2) : r1 \in 1..20, r2 \in 1..20}

\* line 1213: the save succeeds
save_success(roll, bonus, dc) ==
    (roll = 20) \/ (roll + bonus >= dc /\ roll # 1)

\* lines 1211-1215: what a save against the face roll can leave of the
\* damage (half points, before temporary hit points)
StrikeSave(atk, bonus, roll) ==
    {[dealt |-> IF save_success(roll, bonus, atk.dc) THEN dmg ELSE 2 * dmg,
      trig |-> FALSE] : dmg \in roll_damage(atk.damage_expr)}

\* an attack roll whose natural 20 is a plain hit
StrikeRollNoCrit(atk, ac, r) ==
    IF ~(r = 20 \/ (r # 1 /\ r + atk.attack_bonus >= ac))
    THEN {[dealt |-> 0, trig |-> FALSE]}
    ELSE {[dealt |-> 2 * dmg, trig |-> atk.is_melee \/ ~o.rider_melee_only]
             : dmg \in roll_damage(atk.damage_expr)}

\* lines 1222-1229: what an attack roll read from the face r can deal
\* against the armour class ac, and whether it triggers the rider
StrikeRoll(atk, ac, r) ==
    LET is_crit == (r = 20)
        is_hit == is_crit \/ (r # 1 /\ r + atk.attack_bonus >= ac)
    IN IF ~is_hit THEN {[dealt |-> 0, trig |-> FALSE]}
       ELSE {[dealt |-> 2 * dmg,
              trig |-> atk.is_melee \/ ~o.rider_melee_only]
               : dmg \in (IF is_crit
                          THEN roll_damage_crunchy_crit(atk.damage_expr)
                          ELSE roll_damage(atk.damage_expr))}

\* lines 1210-1229: what one strike can deal (half points, before temporary
\* hit points) and whether it triggers the rider
Strike(atk, t, tgt) ==
    IF atk.kind = "save"
    THEN UNION {StrikeSave(atk, party_table[tgt][atk.save_stat], roll)
                   : roll \in 1..20}
    ELSE UNION {StrikeRoll(atk, current_ac(t, tgt), r)
                   : r \in ChosenRolls(current_mode(t, tgt))}

\* a use that picks its target among all the living members
AlivePoolAny(t) == Alive(t)

\* lines 1199-1205: the members of the round's pool that still live, or,
\* when none of them does, every living member
AlivePool(t) ==
    LET in_pool == round_pool[t] \cap Alive(t)
    IN IF in_pool # {} THEN in_pool ELSE Alive(t)

\* lines 1194-1233: one use of one attack in one ongoing trial
BossAttack ==
    /\ epc = "attacks"
    /\ step <= Len(AttackSteps)
    /\ LET atk == ActiveAttacks[AttackSteps[step].atk]
           t == AttackSteps[step].t
           pool == round_pool[t]
           alive_pool == AlivePool(t)
       IN IF pool = {} \/ alive_pool = {}
          THEN UNCHANGED <<pcs_hp, pcs_alive, rider_trig, solo, struck>>
          ELSE \E tgt \in alive_pool : \E x \in Strike(atk, t, tgt) :
                 LET hp1 == pcs_hp[t][tgt] - Max(0, x.dealt - thp_avg)
                     own(z, u) == IF u = t THEN TrialStrike(z, tgt, x) ELSE z
                 IN /\ SoloStep([u \in Trials |-> own(solo[u], u)])
                    /\ struck' = [struck EXCEPT ![t] =
                                     Append(@, Chosen("attack", t, {tgt}))]
                    /\ pcs_hp' = [pcs_hp EXCEPT ![t][tgt] = hp1]
                    /\ pcs_alive' = [pcs_alive EXCEPT ![t][tgt] =
                                        IF hp1 <= 0 THEN FALSE ELSE @]
                    /\ rider_trig' = [rider_trig EXCEPT ![t][tgt] =
                                        IF x.trig THEN TRUE ELSE @]
    /\ step' = step + 1
    /\ UNCHANGED <<encFrame, boxes, epc, rnd, boss_first_flags, boss_hp,
                   rider_rem, rider_since, round_pool, ttk, tpk_flags, pcs_down_at_victory,
                   metrics, acted>>

\* an area effect on trial t: n of the living members (all of them when
\* fewer live) each take a draw around avg; -1 marks a member not chosen
Untouched == [j \in Members |-> 0 - 1]

\* the members an area effect has chosen
Touched(f) == {j \in Members : f[j] >= 0}

\* an area effect that chooses among all members, dead or alive
alive_idxs_all(t) == Members

\* lines 1239 and 1253: the members an area effect chooses from
alive_idxs(t) == Alive(t)

AreaOptions(t, n, avg) ==
    IF alive_idxs(t) = {} THEN {Untouched}
    ELSE UNION {
           {f \in [Members -> GammaDraws(avg) \cup {0 - 1}] :
               \A j \in Members : (f[j] = 0 - 1) <=> (j \notin S)}
           : S \in KSubsets(alive_idxs(t),
                            Min(n, Cardinality(alive_idxs(t)))) }

HpAfterArea(h) ==
    [t \in Trials |-> [j \in Members |->
        IF h[t][j] < 0 THEN pcs_hp[t][j]
        ELSE pcs_hp[t][j] - Max(0, h[t][j] - thp_avg)]]

AliveAfterArea(h) ==
    [t \in Trials |-> [j \in Members |->
        IF h[t][j] >= 0 /\ HpAfterArea(h)[t][j] <= 0 THEN FALSE
        ELSE pcs_alive[t][j]]]

\* a lair action that fires in every round
LairFiresAlways == o.lair_enabled

\* line 1236: the lair action fires this round
LairFires == o.lair_enabled /\ rnd % Max(1, o.lair_every_n) = 0

\* lines 1235-1246, once the uses of the attacks are through
Lair ==
    /\ epc = "attacks"
    /\ step > Len(AttackSteps)
    /\ IF LairFires
       THEN \E h \in SeqProduct(
                   [t \in Trials |->
                       IF t \in BossOngoing
                       THEN AreaOptions(t, o.lair_targets, o.lair_avg)
                       ELSE {Untouched}]) :
              /\ pcs_hp' = HpAfterArea(h)
              /\ pcs_alive' = AliveAfterArea(h)
              /\ SoloStep([t \in Trials |-> TrialArea(solo[t], h[t])])
              /\ struck' = [t \in Trials |->
                               IF t \in BossOngoing
                               THEN Append(struck[t],
                                           Chosen("lair", t, Touched(h[t])))
                               ELSE struck[t]]
       ELSE UNCHANGED <<pcs_hp, pcs_alive, solo, struck>>
    /\ epc' = "recharge"
    /\ UNCHANGED <<encFrame, boxes, rnd, boss_first_flags, boss_hp, rider_rem, rider_since,
                   rider_trig, round_pool, step, ttk, tpk_flags,
                   pcs_down_at_victory, metrics, acted>>

\* line 1252: random.random() < p_rech, p_rech in sixths
RechargeOptions(t) ==
    LET p_rech == parse_recharge(o.recharge_text)
    IN (IF p_rech < 6 THEN {Untouched} ELSE {})
       \cup (IF p_rech > 0
             THEN AreaOptions(t, o.rech_targets, o.rech_avg) ELSE {})

\* line 1262: the rider counter of a member at the end of the boss phase
rider_rem_next(rem, trig) ==
    IF trig THEN o.rider_duration ELSE Max(0, rem - 1)

\* lines 1248-1265: the recharge power, then the rider counters and the
\* wipe flags of the round; history: rider_since is the round in which the
\* rider of a member was last triggered, 0 when it never was
Recharge ==
    /\ epc = "recharge"
    /\ \E h \in SeqProduct(
             [t \in Trials |->
                 IF o.rech_enabled /\ t \in BossOngoing
                 THEN RechargeOptions(t) ELSE {Untouched}]) :
          /\ pcs_hp' = HpAfterArea(h)
          /\ pcs_alive' = AliveAfterArea(h)
          /\ tpk_flags' = [t \in Trials |->
                              tpk_flags[t]
                              \/ (t \in BossOngoing
                                  /\ \A j \in Members : ~AliveAfterArea(h)[t][j])]
          /\ SoloStep([t \in Trials |->
                          TrialRoundEnd(TrialArea(solo[t], h[t]))])
          /\ struck' = [t \in Trials |->
                           IF Touched(h[t]) # {}
                           THEN Append(struck[t],
                                       Chosen("recharge", t, Touched(h[t])))
                           ELSE struck[t]]
    /\ rider_rem' = [t \in Trials |-> [j \in Members |->
                        rider_rem_next(rider_rem[t][j], rider_trig[t][j])]]
    /\ rider_since' = [t \in Trials |-> [j \in Members |->
                          IF rider_trig[t][j] THEN rnd
                          ELSE rider_since[t][j]]]
    /\ epc' = "party_after"
    /\ UNCHANGED <<encFrame, boxes, rnd, boss_first_flags, boss_hp,
                   rider_trig, round_pool, step, ttk, pcs_down_at_victory,
                   metrics, acted>>

\* a curve that counts a trial as surviving the round of its defeat
survAtLeast(x) == Cardinality({t \in Trials : ttk[t] >= x})

\* line 1285: np.mean(ttk > x), as a count over the trials
surv(x) == Cardinality({t \in Trials : ttk[t] > x})

\* lines 1283-1293: the loop is over; the metrics, the two means as counts
\* over the trials
Finish ==
    /\ epc = "round"
    /\ ~LoopContinues
    /\ metrics' =
          [ none |-> FALSE,
            ttk |-> ttk,
            trials |-> o.enc_trials,
            tpk_prob |-> Cardinality({t \in Trials : tpk_flags[t]}),
            pcs_down_at_victory |->
                [k \in 1..Cardinality(Trials \ Ongoing) |->
                    pcs_down_at_victory[SortedSeq(Trials \ Ongoing)[k]]],
            times |-> [i \in 1..(o.enc_max_rounds + 1) |-> i - 1],
            survival_curve |->
                [i \in 1..(o.enc_max_rounds + 1) |-> surv(i - 1)] ]
    /\ epc' = "finished"
    /\ UNCHANGED <<encFrame, boxes, rnd, boss_first_flags, boss_hp, pcs_hp,
                   pcs_alive, rider_rem, rider_since, rider_trig, round_pool, step, ttk,
                   tpk_flags, pcs_down_at_victory, solo, acted, struck>>

\* The encounters followed round by round: at most EncRounds rounds, two
\* party members of a few hit points against a boss of a few hit points;
\* one trial where the boss has several kinds of attack, NTrials trials
\* where it has one.
EncConfigs ==
    LET D == [DEFAULT_OPTIONS EXCEPT !.enc_trials = 1,
                                     !.enc_max_rounds = EncRounds,
                                     !.thp_expr = Dmg(1, <<>>, 0)]
        party == << PC("Fighter", 12, 3), PC("Rogue", 19, 2) >>
        claw == Atk("Claw", "attack", 5, 0, Dmg(1, << <<1, 2>> >>, 1), 1,
                    TRUE, TRUE)
        breath == Atk("Breath", "save", 0, 12, Dmg(1, << <<1, 2>> >>, 2), 1,
                      FALSE, TRUE)
        off == Atk("Tail", "attack", 5, 0, Dmg(1, << <<1, 2>> >>, 0), 1,
                   TRUE, FALSE)
        slam == Atk("Slam", "attack", 5, 0, Dmg(1, <<>>, 1), 1, TRUE, TRUE)
        dprs == << DprRow("Fighter", 2), DprRow("Rogue", 1) >>
    IN { \* an attack and a save, random initiative, the -2 AC rider
         Config(party, << claw, off, breath >>, dprs, <<>>,
                [D EXCEPT !.boss_hp = 3,
                          !.rider_mode = "-2 AC next round"]),
         \* lair and recharge only, the boss first, temporary hit points
         Config(party, << off >>, dprs, <<>>,
                [D EXCEPT !.boss_hp = 2, !.initiative_mode = "boss_first",
                          !.lair_enabled = TRUE, !.lair_avg = 2,
                          !.lair_targets = 1,
                          !.rech_enabled = TRUE, !.rech_avg = 3,
                          !.rech_targets = 2,
                          !.thp_expr = Dmg(1, <<>>, 1)]),
         \* the party first, attacks spread over two members, the advantage
         \* rider, a boss that regenerates
         Config(party, << claw >>, << DprRow("Fighter", 3) >>, <<>>,
                [D EXCEPT !.boss_hp = 4, !.initiative_mode = "party_first",
                          !.spread_targets = 2, !.boss_regen = 1,
                          !.rider_mode = "grant advantage on melee next round",
                          !.rider_duration = 2]),
         \* several trials side by side for two rounds: one attack of 1
         \* point against two members of 1 hit point, random initiative
         Config(<< PC("Fighter", 12, 1), PC("Rogue", 19, 1) >>, << slam >>,
                << DprRow("Fighter", 2) >>, <<>>,
                [D EXCEPT !.boss_hp = 2, !.enc_trials = NTrials,
                          !.enc_max_rounds = 2]),
         \* configurations the three checks reject
         Config(<<>>, << claw >>, dprs, <<>>, D),
         Config(party, << off >>, dprs, <<>>, D),
         Config(party, << claw >>, <<>>, <<>>, D),
         Config(party, << claw >>, dprs, <<>>,
                [D EXCEPT !.enc_use_nova = TRUE]) }

InitEnc ==
    /\ \E c \in EncConfigs : Loaded(c)
    /\ TuneIdle
    /\ EncIdle
    /\ McIdle /\ mc_target = "Fighter"
    /\ CalcIdle

NextEnc ==
    \/ RunEncounterMC
    \/ RoundTop
    \/ PartyFirst
    \/ BossBegin
    \/ BossAttack
    \/ Lair
    \/ Recharge
    \/ PartyAfter
    \/ Finish

SpecEnc == InitEnc /\ [][NextEnc]_vars

-----------------------------------------------------------------------------
(* MainWindow._on_run_mc and MainWindow._run_mc_sim: the damage one party  *)
(* member takes over mc_rounds rounds, in mc_trials trials.  Damage is in  *)
(* half points.                                                            *)

McTrials == 1..o.mc_trials

\* next(r for r in party_table if r.get("Name") == target_name, None)
RECURSIVE FirstNamed(_, _)
FirstNamed(tbl, nm) ==
    IF tbl = <<>> THEN <<>>
    ELSE IF Head(tbl).Name = nm THEN <<Head(tbl)>>
    ELSE FirstNamed(Tail(tbl), nm)

mc_thp_avg == average_damage(o.thp_expr)

\* lines 1009-1010: an armour class and the roll mode, the rider at work
\* (on) or not
mc_ac_under_rider(ac, on) ==
    IF o.rider_mode = "-2 AC next round" /\ on THEN ac - 2 ELSE ac

mc_mode_under_rider(on) ==
    IF o.rider_mode = "grant advantage on melee next round" /\ on
    THEN "adv" ELSE o.mode_select

mc_current_ac(i) == mc_ac_under_rider(mc_pc.AC, rider_remaining[i] > 0)

mc_current_mode(i) == mc_mode_under_rider(rider_remaining[i] > 0)

\* np.random.binomial(uses_per_round, 1.0 / max(1, spread_targets))
HitsOnTarget(atk) ==
    IF Max(1, o.spread_targets) = 1 THEN {atk.uses_per_round}
    ELSE 0..atk.uses_per_round

\* line 1020: the save succeeds
successes(roll, bonus, dc) == roll + bonus >= dc

\* lines 1018-1022: what a save against the face roll adds to the round
\* damage (half points)
McSave(atk, bonus, roll) ==
    {[dmg |-> IF successes(roll, bonus, atk.dc) THEN d ELSE 2 * d,
      trig |-> FALSE] : d \in roll_damage(atk.damage_expr)}

\* lines 1029-1034: what an attack roll read from the face r adds against
\* the armour class ac, and whether it triggers the rider
McRoll(atk, ac, r) ==
    LET is_crit == (r = 20)
        is_hit == is_crit \/ (r # 1 /\ r + atk.attack_bonus >= ac)
    IN IF ~is_hit THEN {[dmg |-> 0, trig |-> FALSE]}
       ELSE {[dmg |-> 2 * d, trig |-> atk.is_melee \/ ~o.rider_melee_only]
               : d \in (IF is_crit
                        THEN roll_damage_crunchy_crit(atk.damage_expr)
                        ELSE roll_damage(atk.damage_expr))}

\* lines 1017-1022 and 1024-1034: what one use of the attack adds to the
\* round damage of trial i, and whether it triggers the rider
McUse(atk, i) ==
    IF atk.kind = "save"
    THEN UNION {McSave(atk, mc_pc[atk.save_stat], roll) : roll \in 1..20}
    ELSE UNION {McRoll(atk, mc_current_ac(i), r)
                   : r \in ChosenRolls(mc_current_mode(i))}

RECURSIVE McUses(_, _, _)
McUses(atk, i, n) ==
    IF n <= 0 THEN {[dmg |-> 0, trig |-> FALSE]}
    ELSE {[dmg |-> a.dmg + b.dmg, trig |-> a.trig \/ b.trig]
             : a \in McUse(atk, i), b \in McUses(atk, i, n - 1)}

\* a round total that temporary hit points can turn negative
RoundGainUnfloored(rd, thp) == rd - thp

\* line 1036: np.maximum(0, round_damage - thp_avg)
RoundGain(rd, thp) == Max(0, rd - thp)

mcFrame == <<cfgVars, o_before, uiVars, tuneVars, encVars, calcVars>>

\* _on_run_mc up to the first round of _run_mc_sim
OnRunMc ==
    /\ mpc = "idle"
    /\ o' = pull_all_ui(o)
    /\ LET pc_row == FirstNamed(party_table, mc_target)
       IN IF pc_row = <<>>
          THEN /\ boxes' = boxes \cup {"No Target"}
               /\ mpc' = "rejected"
               /\ UNCHANGED <<mc_pc, total_damage, rider_remaining,
                              mc_rider_since>>
          ELSE /\ boxes' = boxes
               /\ mpc' = "round"
               /\ mc_pc' = pc_row[1]
               /\ total_damage' = [i \in 1..(o.mc_trials) |-> 0]
               /\ rider_remaining' = [i \in 1..(o.mc_trials) |-> 0]
               /\ mc_rider_since' = [i \in 1..(o.mc_trials) |-> 0]
    /\ UNCHANGED <<cfgVars, o_before, spn_boss_hp, spn_enc_trials,
                   lbl_ttk_median, lbl_tpk, tuneVars, encVars, calcVars,
                   mc_target,
                   mc_rnd, mc_atk, mc_i, round_damage, triggered_rider,
                   mc_totals>>

\* lines 1006-1010: a new round
McRoundTop ==
    /\ mpc = "round"
    /\ mc_rnd < o.mc_rounds
    /\ round_damage' = [i \in McTrials |-> 0]
    /\ triggered_rider' = [i \in McTrials |-> FALSE]
    /\ mc_atk' = 1 /\ mc_i' = 1
    /\ mpc' = "attacks"
    /\ UNCHANGED <<mcFrame, o, mc_target, mc_pc, mc_rnd, total_damage,
                   rider_remaining, mc_rider_since, mc_totals>>

\* lines 1012-1034: the uses of one attack that fall on the target in one
\* trial; an attack without uses is passed over
McAttack ==
    /\ mpc = "attacks"
    /\ mc_atk <= Len(ActiveAttacks)
    /\ LET atk == ActiveAttacks[mc_atk]
       IN IF atk.uses_per_round <= 0
          THEN /\ mc_atk' = mc_atk + 1 /\ mc_i' = 1
               /\ UNCHANGED <<round_damage, triggered_rider>>
          ELSE /\ \E n \in HitsOnTarget(atk) : \E x \in McUses(atk, mc_i, n) :
                    /\ round_damage' = [round_damage EXCEPT
                                           ![mc_i] = @ + x.dmg]
                    /\ triggered_rider' = [triggered_rider EXCEPT
                                              ![mc_i] = @ \/ x.trig]
               /\ IF mc_i < o.mc_trials
                  THEN mc_i' = mc_i + 1 /\ mc_atk' = mc_atk
                  ELSE mc_i' = 1 /\ mc_atk' = mc_atk + 1
    /\ UNCHANGED <<mcFrame, o, mc_target, mpc, mc_pc, mc_rnd, total_damage,
                   rider_remaining, mc_rider_since, mc_totals>>

\* a rider counter that is counted down without a floor
rider_remaining_unfloored(rem, trig) ==
    IF trig THEN o.rider_duration ELSE rem - 1

\* lines 1037-1038: the rider counter of a trial at the end of the round
rider_remaining_next(rem, trig) ==
    Max(0, IF trig THEN o.rider_duration ELSE rem - 1)

\* lines 1036-1038: the round is added to the totals, the rider counters
\* move on; history: mc_rider_since is the round in which the rider of a
\* trial was last triggered, 0 when it never was
McRoundEnd ==
    /\ mpc = "attacks"
    /\ mc_atk > Len(ActiveAttacks)
    /\ total_damage' = [i \in McTrials |->
                           total_damage[i]
                           + RoundGain(round_damage[i], mc_thp_avg)]
    /\ rider_remaining' = [i \in McTrials |->
                              rider_remaining_next(rider_remaining[i],
                                                   triggered_rider[i])]
    /\ mc_rider_since' = [i \in McTrials |->
                             IF triggered_rider[i] THEN mc_rnd + 1
                             ELSE mc_rider_since[i]]
    /\ mc_rnd' = mc_rnd + 1
    /\ mpc' = "round"
    /\ UNCHANGED <<mcFrame, o, mc_target, mc_pc, mc_atk, mc_i, round_damage,
                   triggered_rider, mc_totals>>

\* line 1039: return total_damage
McReturn ==
    /\ mpc = "round"
    /\ mc_rnd >= o.mc_rounds
    /\ mc_totals' = total_damage
    /\ mpc' = "done"
    /\ UNCHANGED <<mcFrame, o, mc_target, mc_pc, mc_rnd, mc_atk, mc_i,
                   total_damage, rider_remaining, mc_rider_since, round_damage,
                   triggered_rider>>

\* The single-target simulations followed: McRounds rounds against one of
\* two party members; one trial where the boss has several kinds of attack,
\* NTrials trials where it has one.
McConfigs ==
    LET D == [DEFAULT_OPTIONS EXCEPT !.mc_trials = 1,
                                     !.mc_rounds = McRounds,
                                     !.thp_expr = Dmg(1, <<>>, 2)]
        party == << PC("Fighter", 12, 3), PC("Rogue", 19, 2) >>
        claw == Atk("Claw", "attack", 5, 0, Dmg(1, << <<1, 2>> >>, 1), 1,
                    TRUE, TRUE)
        breath == Atk("Breath", "save", 0, 12, Dmg(1, << <<1, 2>> >>, 2), 1,
                      FALSE, TRUE)
        idle == Atk("Roar", "attack", 5, 0, Dmg(1, <<>>, 1), 0, TRUE, TRUE)
        gas == Atk("Gas", "save", 0, 12, Dmg(1, <<>>, 3), 1, FALSE, TRUE)
    IN { Config(party, << claw, idle, breath >>, <<>>, <<>>,
                [D EXCEPT !.rider_mode = "-2 AC next round",
                          !.rider_duration = 2]),
         Config(party, << claw >>, <<>>, <<>>,
                [D EXCEPT !.spread_targets = 2, !.mode_select = "dis",
                          !.rider_mode =
                              "grant advantage on melee next round"]),
         Config(party, << breath >>, <<>>, <<>>,
                [D EXCEPT !.thp_expr = Dmg(1, <<>>, 0)]),
         Config(party, << gas >>, <<>>, <<>>,
                [D EXCEPT !.mc_trials = NTrials]) }

InitMc ==
    /\ \E c \in McConfigs : Loaded(c)
    /\ mc_target \in {"Fighter", "Rogue", "(No PCs)"}
    /\ TuneIdle
    /\ EncIdle
    /\ McIdle
    /\ CalcIdle

NextMc ==
    \/ OnRunMc
    \/ McRoundTop
    \/ McAttack
    \/ McRoundEnd
    \/ McReturn

SpecMc == InitMc /\ [][NextMc]_vars

-----------------------------------------------------------------------------
(* The two simulators on the same profile *)

\* the rounds either simulator runs for
SimRounds == 3

\* One member against a boss it cannot bring down in SimRounds rounds; the
\* attacks deal a fixed 1 point and no temporary hit points take it away, so
\* that a hit always shows in the damage.
SimConfigs ==
    LET D == [DEFAULT_OPTIONS EXCEPT !.enc_trials = 1, !.mc_trials = 1,
                                     !.enc_max_rounds = SimRounds,
                                     !.mc_rounds = SimRounds,
                                     !.thp_expr = Dmg(1, <<>>, 0),
                                     !.boss_hp = 9,
                                     !.initiative_mode = "party_first"]
        party == << PC("Fighter", 12, 6) >>
        slam == Atk("Slam", "attack", 5, 0, Dmg(1, <<>>, 1), 1, TRUE, TRUE)
        dart == Atk("Dart", "attack", 5, 0, Dmg(1, <<>>, 1), 1, FALSE, TRUE)
        gas == Atk("Gas", "save", 0, 12, Dmg(1, <<>>, 1), 1, FALSE, TRUE)
        dprs == << DprRow("Fighter", 1) >>
    IN { \* a melee and a ranged attack, the rider from melee hits only
         Config(party, << slam, dart >>, dprs, <<>>,
                [D EXCEPT !.rider_mode = "-2 AC next round"]),
         \* a ranged attack and a save, the rider from any hit, 2 rounds long
         Config(party, << dart, gas >>, dprs, <<>>,
                [D EXCEPT !.rider_mode =
                              "grant advantage on melee next round",
                          !.rider_duration = 2,
                          !.rider_melee_only = FALSE]) }

InitSims ==
    /\ \E c \in SimConfigs : Loaded(c)
    /\ mc_target = "Fighter"
    /\ TuneIdle
    /\ EncIdle
    /\ McIdle
    /\ CalcIdle

\* the handlers run one at a time; one simulation is followed per session
NextSims ==
    \/ mpc = "idle" /\ NextEnc
    \/ epc = "idle" /\ NextMc

SpecSims == InitSims /\ [][NextSims]_vars

-----------------------------------------------------------------------------
(* The damage expression functions on their own.  The text of an           *)
(* expression is a sequence of terms, each with the sign written before    *)
(* it ("" for none): a dice term <count>d<sides>, count -1 when no digits  *)
(* are written, or a number.                                               *)

DiceTerm(sg, count, sides) ==
    [kind |-> "dice", sg |-> sg, count |-> count, sides |-> sides]
NumTerm(sg, value) ==
    [kind |-> "num", sg |-> sg, count |-> value, sides |-> 0]

\* int() of the digits of a term under the sign in front of them
Signed(sg, n) == IF sg = "-" THEN 0 - n ELSE n

RECURSIVE ParsedDice(_)
ParsedDice(terms) ==
    IF terms = <<>> THEN <<>>
    ELSE LET x == Head(terms)
             c == IF x.count < 0 THEN Signed(x.sg, 1)
                  ELSE Signed(x.sg, x.count)
         IN (IF x.kind = "dice" THEN << <<c, x.sides>> >> ELSE <<>>)
            \o ParsedDice(Tail(terms))

RECURSIVE ParsedMod(_)
ParsedMod(terms) ==
    IF terms = <<>> THEN 0
    ELSE (IF Head(terms).kind = "num"
          THEN Signed(Head(terms).sg, Head(terms).count) ELSE 0)
         + ParsedMod(Tail(terms))

\* parse_damage_expression: a leading "-" is the sign of the whole
\* expression; that sign, or a leading "+", is taken off the first term
parse_damage_expression(text) ==
    IF text = <<>> THEN Dmg(1, <<>>, 0)
    ELSE LET s == <<[Head(text) EXCEPT !.sg = ""]>> \o Tail(text)
         IN Dmg(IF Head(text).sg = "-" THEN 0 - 1 ELSE 1,
                ParsedDice(s), ParsedMod(s))

RECURSIVE SumDiceCritAverages(_)
SumDiceCritAverages(dice) ==
    IF dice = <<>> THEN 0
    ELSE Head(dice)[1] * (3 * Head(dice)[2] + 1)
         + SumDiceCritAverages(Tail(dice))

\* average_crunchy_crit_damage, in half points
average_crunchy_crit_damage(e) ==
    Max(0, e.sign * (SumDiceCritAverages(e.dice) + 2 * e.mod))

\* np.random.randint(1, sides + 1): the number of ways n dice of s sides
\* show the total v, every face as likely as another
RECURSIVE Ways(_, _, _)
Ways(n, s, v) ==
    IF n = 0 THEN (IF v = 0 THEN 1 ELSE 0)
    ELSE IF v < n \/ v > n * s THEN 0
    ELSE SumSeq([k \in 1..s |-> Ways(n - 1, s, v - k)])

\* the number of ways one dice term adds a to the total of a roll
TermWays(count, sides, crit, a) ==
    IF count = 0 \/ sides <= 0 THEN (IF a = 0 THEN 1 ELSE 0)
    ELSE LET n == Abs(count)
             v == (IF count < 0 THEN 0 - a ELSE a)
                  - (IF crit THEN n * sides ELSE 0)
         IN Ways(n, sides, v)

\* the largest size the dice total of a roll can have
RECURSIVE Reach(_)
Reach(dice) ==
    IF dice = <<>> THEN 0
    ELSE 2 * Abs(Head(dice)[1]) * Max(0, Head(dice)[2]) + Reach(Tail(dice))

\* the number of ways the dice add up to x
RECURSIVE DiceWays(_, _, _)
DiceWays(dice, crit, x) ==
    IF dice = <<>> THEN (IF x = 0 THEN 1 ELSE 0)
    ELSE LET c == Head(dice)[1]
             sd == Head(dice)[2]
             r == 2 * Abs(c) * Max(0, sd)
         IN SumSeq([k \in 1..(2 * r + 1) |->
                       TermWays(c, sd, crit, k - r - 1)
                       * DiceWays(Tail(dice), crit, x - (k - r - 1))])

\* the number of equally likely ways the dice of a roll can fall
RECURSIVE FaceCount(_)
FaceCount(dice) ==
    IF dice = <<>> THEN 1
    ELSE SumSeq([k \in 1..(2 * Reach(<<Head(dice)>>) + 1) |->
                    TermWays(Head(dice)[1], Head(dice)[2], FALSE,
                             k - Reach(<<Head(dice)>>) - 1)])
         * FaceCount(Tail(dice))

\* the results of roll_damage (roll_damage_crunchy_crit when crit) summed
\* over every way the dice can fall, in whole points
RollTotal(e, crit) ==
    LET r == Reach(e.dice)
    IN SumSeq([k \in 1..(2 * r + 1) |->
                  DiceWays(e.dice, crit, k - r - 1)
                  * Max(0, e.sign * ((k - r - 1) + e.mod))])

\* the dice of an expression without the terms of no sides
RECURSIVE LiveDice(_)
LiveDice(dice) ==
    IF dice = <<>> THEN <<>>
    ELSE (IF Head(dice)[2] <= 0 THEN <<>> ELSE <<Head(dice)>>)
         \o LiveDice(Tail(dice))

\* The expressions evaluated: up to MaxTerms terms, dice of 0, 2 or 4
\* sides, counts 0 to 2 or none written, numbers 1 and 2.
TermBodies ==
    {DiceTerm("", c, sd) : c \in (0 - 1)..2, sd \in {0, 2, 4}}
    \cup {NumTerm("", v) : v \in 1..2}

FirstTerms == {[b EXCEPT !.sg = g] : b \in TermBodies, g \in {"", "+", "-"}}
LaterTerms == {[b EXCEPT !.sg = g] : b \in TermBodies, g \in {"+", "-"}}

RECURSIVE TextsOfLength(_)
TextsOfLength(n) ==
    IF n = 0 THEN {<<>>}
    ELSE IF n = 1 THEN {<<x>> : x \in FirstTerms}
    ELSE {q \o <<x>> : q \in TextsOfLength(n - 1), x \in LaterTerms}

DamageTexts == UNION {TextsOfLength(n) : n \in 0..MaxTerms}

\* the profile the application starts with
CalcProfile ==
    Config(DefaultParty, DefaultAttacks, <<>>, <<>>, DEFAULT_OPTIONS)

diceFrame == <<cfgVars, o, o_before, uiVars, tuneVars, encVars, mcVars,
                rollVars,
               hpc, h_ac, h_bonus, h_mode, h_probs, rpc, r_text, r_prob>>

\* average_damage(expr)
AverageDamage ==
    /\ dpc = "text"
    /\ d_avg' = average_damage(parse_damage_expression(d_text))
    /\ dpc' = "averaged"
    /\ UNCHANGED <<diceFrame, d_text, d_avg_crit, d_roll, d_crit>>

\* average_crunchy_crit_damage(expr)
AverageCrunchyCritDamage ==
    /\ dpc = "averaged"
    /\ d_avg_crit' =
          average_crunchy_crit_damage(parse_damage_expression(d_text))
    /\ dpc' = "crit_averaged"
    /\ UNCHANGED <<diceFrame, d_text, d_avg, d_roll, d_crit>>

\* roll_damage(expr, 1)[0]
RollDamage ==
    /\ dpc = "crit_averaged"
    /\ d_roll' \in roll_damage(parse_damage_expression(d_text))
    /\ dpc' = "rolled"
    /\ UNCHANGED <<diceFrame, d_text, d_avg, d_avg_crit, d_crit>>

\* roll_damage_crunchy_crit(expr)
RollDamageCrunchyCrit ==
    /\ dpc = "rolled"
    /\ d_crit' \in roll_damage_crunchy_crit(parse_damage_expression(d_text))
    /\ dpc' = "done"
    /\ UNCHANGED <<diceFrame, d_text, d_avg, d_avg_crit, d_roll>>

InitDice ==
    /\ Loaded(CalcProfile)
    /\ RollIdle
    /\ TuneIdle /\ EncIdle /\ McIdle /\ mc_target = "Fighter"
    /\ dpc = "text" /\ d_text \in DamageTexts
    /\ d_avg = 0 - 1 /\ d_avg_crit = 0 - 1 /\ d_roll = 0 - 1 /\ d_crit = 0 - 1
    /\ hpc = "idle" /\ h_ac = 0 /\ h_bonus = 0 /\ h_mode = "normal"
    /\ h_probs = <<>>
    /\ rpc = "idle" /\ r_text = <<>> /\ r_prob = 0 - 1

NextDice ==
    \/ AverageDamage
    \/ AverageCrunchyCritDamage
    \/ RollDamage
    \/ RollDamageCrunchyCrit

SpecDice == InitDice /\ [][NextDice]_vars

-----------------------------------------------------------------------------
(* hit_probs and parse_recharge on their own *)

ArmourClasses == 0..30
AttackBonuses == (0 - 5)..15
Modes == {"normal", "adv", "dis"}

hitFrame == <<cfgVars, o, o_before, uiVars, tuneVars, encVars, mcVars,
               rollVars,
              dpc, d_text, d_avg, d_avg_crit, d_roll, d_crit,
              rpc, r_text, r_prob>>

\* hit_probs(ac, attack_bonus, mode): the three probabilities as counts
\* over the faces enumerated
HitProbs ==
    /\ hpc = "args"
    /\ LET p == hit_probs(h_ac, h_bonus, h_mode)
       IN h_probs' = [p_noncrit |-> p[1], p_crit |-> p[2],
                      p_any |-> p[1] + p[2], faces |-> p[3]]
    /\ hpc' = "done"
    /\ UNCHANGED <<hitFrame, h_ac, h_bonus, h_mode>>

InitHit ==
    /\ Loaded(CalcProfile)
    /\ RollIdle
    /\ TuneIdle /\ EncIdle /\ McIdle /\ mc_target = "Fighter"
    /\ dpc = "idle" /\ d_text = <<>>
    /\ d_avg = 0 - 1 /\ d_avg_crit = 0 - 1 /\ d_roll = 0 - 1 /\ d_crit = 0 - 1
    /\ hpc = "args"
    /\ h_ac \in ArmourClasses /\ h_bonus \in AttackBonuses /\ h_mode \in Modes
    /\ h_probs = <<>>
    /\ rpc = "idle" /\ r_text = <<>> /\ r_prob = 0 - 1

NextHit == HitProbs

SpecHit == InitHit /\ [][NextHit]_vars

\* The recharge texts parsed: a number without a dash, two numbers around
\* the first dash (the second may carry a dash of its own), or text that
\* int() rejects.
RechargeTexts ==
    {RechSingle(k) : k \in 0..9}
    \cup {RechRange(lo, hi) : lo \in 0..8, hi \in (0 - 2)..8}
    \cup {RechText}

rechFrame == <<cfgVars, o, o_before, uiVars, tuneVars, encVars, mcVars,
                rollVars,
               dpc, d_text, d_avg, d_avg_crit, d_roll, d_crit,
               hpc, h_ac, h_bonus, h_mode, h_probs>>

\* parse_recharge(text)
ParseRecharge ==
    /\ rpc = "text"
    /\ r_prob' = parse_recharge(r_text)
    /\ rpc' = "done"
    /\ UNCHANGED <<rechFrame, r_text>>

InitRech ==
    /\ Loaded(CalcProfile)
    /\ RollIdle
    /\ TuneIdle /\ EncIdle /\ McIdle /\ mc_target = "Fighter"
    /\ dpc = "idle" /\ d_text = <<>>
    /\ d_avg = 0 - 1 /\ d_avg_crit = 0 - 1 /\ d_roll = 0 - 1 /\ d_crit = 0 - 1
    /\ hpc = "idle" /\ h_ac = 0 /\ h_bonus = 0 /\ h_mode = "normal"
    /\ h_probs = <<>>
    /\ rpc = "text" /\ r_text \in RechargeTexts /\ r_prob = 0 - 1

NextRech == ParseRecharge

SpecRech == InitRech /\ [][NextRech]_vars

-----------------------------------------------------------------------------
(* One roll of the boss, resolved by both simulators *)

\* p_save_fail(dc, save_bonus), in twentieths
p_save_fail(dc, save_bonus) ==
    LET tgt == dc - save_bonus
    IN IF tgt <= 1 THEN 1
       ELSE IF tgt > 20 THEN 19
       ELSE tgt - 1

\* The rolls resolved: every pair of d20 faces under every roll mode and
\* every rider, against armour classes that the -2 of the rider takes to
\* or below 1, to the middle and beyond the reach of the die; saves whose
\* DC less bonus lies below, within and above the faces of the die.
RollACs == {1, 12, 27}
RollBonuses == {0, 5}
SaveDCs == {1, 3, 12, 22, 26}
SaveBonuses == {0, 2, 5}
RiderModes == {"none", "-2 AC next round",
               "grant advantage on melee next round"}

RollProfiles ==
    {[CalcProfile EXCEPT !.o.rider_mode = rm, !.o.mode_select = ms]
        : rm \in RiderModes, ms \in Modes}

\* the attack that is rolled for: 1d2+1 on a hit
RollExpr == Dmg(1, << <<1, 2>> >>, 1)

RollAttack ==
    IF k_kind = "save"
    THEN Atk("Breath", "save", 0, k_dc, RollExpr, 1, FALSE, TRUE)
    ELSE Atk("Claw", "attack", k_bonus, 0, RollExpr, 1, TRUE, TRUE)

rollFrame == <<cfgVars, o, o_before, uiVars, tuneVars, encVars, mcVars,
               dpc, d_text, d_avg, d_avg_crit, d_roll, d_crit,
               hpc, h_ac, h_bonus, h_mode, h_probs, rpc, r_text, r_prob,
               k_kind, k_on, k_ac, k_dc, k_bonus, k_r1, k_r2>>

\* lines 1210-1229: the roll as _run_encounter_mc resolves it
RollEnc ==
    /\ kpc = "drawn"
    /\ k_enc' = IF k_kind = "save"
                THEN StrikeSave(RollAttack, k_bonus, k_r1)
                ELSE StrikeRoll(RollAttack, ac_under_rider(k_ac, k_on),
                                chosen_roll(mode_under_rider(k_on),
                                            k_r1, k_r2))
    /\ kpc' = "enc"
    /\ UNCHANGED <<rollFrame, k_mc, k_ref>>

\* lines 1017-1034: the roll as _run_mc_sim resolves it
RollMc ==
    /\ kpc = "enc"
    /\ k_mc' = IF k_kind = "save"
               THEN McSave(RollAttack, k_bonus, k_r1)
               ELSE McRoll(RollAttack, mc_ac_under_rider(k_ac, k_on),
                           chosen_roll(mc_mode_under_rider(k_on),
                                       k_r1, k_r2))
    /\ kpc' = "mc"
    /\ UNCHANGED <<rollFrame, k_enc, k_ref>>

\* what the calculators say of the same roll: p_save_fail in twentieths,
\* hit_probs as counts
RollRef ==
    /\ kpc = "mc"
    /\ k_ref' = IF k_kind = "save"
                THEN <<p_save_fail(k_dc, k_bonus)>>
                ELSE hit_probs(ac_under_rider(k_ac, k_on), k_bonus,
                               mode_under_rider(k_on))
    /\ kpc' = "done"
    /\ UNCHANGED <<rollFrame, k_enc, k_mc>>

InitRoll ==
    /\ TuneIdle /\ EncIdle /\ McIdle /\ mc_target = "Fighter"
    /\ dpc = "idle" /\ d_text = <<>>
    /\ d_avg = 0 - 1 /\ d_avg_crit = 0 - 1 /\ d_roll = 0 - 1 /\ d_crit = 0 - 1
    /\ hpc = "idle" /\ h_ac = 0 /\ h_bonus = 0 /\ h_mode = "normal"
    /\ h_probs = <<>>
    /\ rpc = "idle" /\ r_text = <<>> /\ r_prob = 0 - 1
    /\ kpc = "drawn" /\ k_enc = {} /\ k_mc = {} /\ k_ref = <<>>
    /\ k_r1 \in 1..20
    /\ \/ /\ k_kind = "save"
          /\ Loaded(CalcProfile)
          /\ k_dc \in SaveDCs /\ k_bonus \in SaveBonuses
          /\ k_on = FALSE /\ k_ac = 0 /\ k_r2 = 1
       \/ /\ k_kind = "attack"
          /\ \E c \in RollProfiles : Loaded(c)
          /\ k_ac \in RollACs /\ k_bonus \in RollBonuses
          /\ k_on \in BOOLEAN /\ k_r2 \in 1..20
          /\ k_dc = 0

NextRoll ==
    \/ RollEnc
    \/ RollMc
    \/ RollRef

SpecRoll == InitRoll /\ [][NextRoll]_vars

-----------------------------------------------------------------------------
(* Properties of the encounter simulation *)

\* C1: within each trial a recorded finite TTK is an integer round index r
\* with 1 <= r <= enc_max_rounds, the round in which a party phase brought
\* the boss to 0 HP or below; a trial whose boss is not defeated by the
\* round cap keeps TTK = infinity, in the arrays and in the metrics.
C1_TtkIsRoundOrInfinity ==
    epc \notin {"idle", "rejected"} =>
        /\ \A t \in Trials :
              /\ ttk[t] = Inf \/ ttk[t] \in 1..o.enc_max_rounds
              /\ ttk[t] # Inf => ttk[t] <= rnd
              /\ (ttk[t] = Inf) <=> (boss_hp[t] > 0)
        /\ epc = "finished" =>
              /\ metrics.ttk = ttk
              /\ \A t \in Trials :
                    boss_hp[t] > 0 => metrics.ttk[t] = Inf

\* one trial ends in the last round of the cap, another outlasts it
C1_Witness ==
    /\ epc = "finished"
    /\ \E t \in Trials : ttk[t] = o.enc_max_rounds
    /\ \E t \in Trials : ttk[t] = Inf /\ boss_hp[t] > 0

\* C2: the simulation is rejected up front, with no result and no trial
\* state created, exactly when (i) the party is empty, or (ii) no attack is
\* enabled and neither lair nor recharge is enabled, or (iii) the selected
\* DPR source (manual or nova) has no per-member entry.
C2_RejectedUpFront ==
    LET no_party == party_table = <<>>
        no_offense == /\ \A k \in DOMAIN attacks_table :
                             ~attacks_table[k].enabled
                      /\ ~o.lair_enabled /\ ~o.rech_enabled
        no_dpr == IF o.enc_use_nova THEN party_nova_table = <<>>
                  ELSE party_dpr_table = <<>>
    IN epc # "idle" =>
        /\ (epc = "rejected") <=> (no_party \/ no_offense \/ no_dpr)
        /\ epc = "rejected" =>
              /\ metrics = [none |-> TRUE]
              /\ boxes \in {{"No Party"}, {"No Boss Offense"}, {"No DPR"}}
              /\ rnd = 0 /\ ttk = <<>> /\ boss_hp = <<>> /\ pcs_hp = <<>>
              /\ pcs_alive = <<>> /\ tpk_flags = <<>> /\ rider_rem = <<>>
        /\ epc # "rejected" => boxes = {} /\ DOMAIN ttk = Trials

\* a party and an enabled attack, and no row in the selected DPR table
C2_Witness ==
    /\ epc = "rejected"
    /\ party_table # <<>>
    /\ \E k \in DOMAIN attacks_table : attacks_table[k].enabled
    /\ boxes = {"No DPR"}

\* no hit points rise in a step of a running encounter
HpNonIncreasing ==
    (epc \notin {"idle", "rejected"}) =>
        \A t \in Trials :
            /\ boss_hp'[t] <= boss_hp[t]
            /\ \A j \in Members : pcs_hp'[t][j] <= pcs_hp[t][j]

\* C11: in every trial the boss HP and every member's HP never rise from
\* one step of the simulation to the next: every damage applied (party
\* damage after resistance and regeneration, attack, lair and recharge
\* damage after temporary hit points) is >= 0, so regeneration and
\* temporary hit points cancel damage and never heal.
C11_HpNeverRises == [][HpNonIncreasing]_vars

\* a party phase whose damage the regeneration cancelled, and a lair action
\* whose damage the temporary hit points cancelled
C11_Witness ==
    \/ /\ o.boss_regen > 0 /\ o.initiative_mode = "party_first"
       /\ epc = "boss" /\ rnd = 1
       /\ boss_hp[1] = 2 * o.boss_hp
    \/ /\ thp_avg > 0 /\ LairFires /\ epc = "recharge"
       /\ \A j \in Members : pcs_hp[1][j] = 2 * party_table[j].HP

\* what the claim lists of trial t, rider counters aside, is what the trial
\* run on its own with the same draws holds
SameButRiders(t) ==
    /\ boss_hp[t] = solo[t].boss_hp
    /\ pcs_hp[t] = solo[t].pcs_hp
    /\ pcs_alive[t] = solo[t].pcs_alive
    /\ ttk[t] = solo[t].ttk
    /\ tpk_flags[t] = solo[t].tpk
    /\ pcs_down_at_victory[t] = solo[t].down

\* C12 as stated: the whole state of a trial, rider counters included, is
\* what the trial run on its own with the same draws holds.
C12_NoStateLeaks ==
    epc \notin {"idle", "rejected"} =>
        \A t \in Trials :
            SameButRiders(t) /\ rider_rem[t] = solo[t].rider_rem

\* C12: the boss HP, member HP and alive flags, TTK, wipe flag and number
\* of members down of a trial are determined by its own initial state and
\* its own draws, and so are its rider counters while it is ongoing; the
\* rider counters of a trial that is over are still counted down in every
\* later boss phase that another trial keeps going, never up.
C12_TrialsIndependent ==
    epc \notin {"idle", "rejected"} =>
        \A t \in Trials :
            /\ SameButRiders(t)
            /\ ttk[t] = Inf => rider_rem[t] = solo[t].rider_rem
            /\ \A j \in Members :
                  /\ rider_rem[t][j] <= solo[t].rider_rem[j]
                  /\ rider_rem[t][j] >= 0

\* two trials side by side that the draws have taken apart: one is over
\* with a member down, the other is ongoing with both members up
C12_Witness ==
    /\ o.enc_trials > 1 /\ epc = "round" /\ rnd = 2
    /\ ttk[1] = 1 /\ ttk[2] = Inf
    /\ pcs_down_at_victory[1] = 1
    /\ \A j \in Members : pcs_alive[2][j]
    /\ boss_hp[2] < 2 * o.boss_hp

\* C13: survival_curve has one entry for each time x in 0..enc_max_rounds,
\* the fraction of the trials whose TTK is greater than x (here its
\* numerator over metrics.trials); it is non-increasing in x, and its entry
\* for time 0 is 1.0 whenever the boss starts with HP > 0.
C13_SurvivalCurve ==
    epc = "finished" =>
        LET c == metrics.survival_curve
            n == o.enc_max_rounds + 1
        IN /\ Len(c) = n /\ Len(metrics.times) = n
           /\ metrics.trials = Cardinality(Trials)
           /\ \A i \in 1..n :
                 /\ metrics.times[i] = i - 1
                 /\ c[i] = Cardinality({t \in Trials :
                                           metrics.ttk[t] > metrics.times[i]})
                 /\ c[i] \in 0..metrics.trials
           /\ \A i \in 1..(n - 1) : c[i + 1] <= c[i]
           /\ o.boss_hp > 0 => c[1] = metrics.trials

\* a curve that starts at 1.0, falls in the first round and does not reach 0
C13_Witness ==
    /\ epc = "finished" /\ o.enc_trials > 1 /\ o.boss_hp > 0
    /\ metrics.survival_curve[1] = metrics.trials
    /\ metrics.survival_curve[2] < metrics.survival_curve[1]
    /\ metrics.survival_curve[Len(metrics.survival_curve)] > 0

\* how often the phase ph is among the phases a
RECURSIVE Count(_, _)
Count(a, ph) ==
    IF a = <<>> THEN 0
    ELSE (IF Head(a) = ph THEN 1 ELSE 0) + Count(Tail(a), ph)

\* the encounter is inside round rnd
InRound == epc \in {"party_first", "boss", "attacks", "recharge",
                    "party_after"}

\* C19: in each round every trial goes through the party phase at most
\* once and through the boss phase at most once, and a trial still ongoing
\* when a phase is due goes through it exactly once, whichever side acts
\* first: a trial that outlasts a round has done both phases in it, a trial
\* whose boss falls in a round has done its party phase in it, a trial
\* that was over before a round has done nothing in it.
C19_PhasesOncePerRound ==
    epc \notin {"idle", "rejected"} =>
        \A t \in Trials : \A r \in 1..o.enc_max_rounds :
            LET a == acted[t][r]
            IN /\ Count(a, "party") <= 1 /\ Count(a, "boss") <= 1
               /\ (r < rnd /\ ttk[t] > r) =>
                     Count(a, "party") = 1 /\ Count(a, "boss") = 1
               /\ ttk[t] = r => Count(a, "party") = 1
               /\ (ttk[t] < r \/ r > rnd) => a = <<>>
               /\ (r = rnd /\ InRound /\ ttk[t] = Inf) =>
                     /\ (epc # "party_first" /\ ~boss_first_flags[t]) =>
                           Count(a, "party") = 1
                     /\ epc \in {"attacks", "recharge", "party_after"} =>
                           Count(a, "boss") = 1

\* a trial that went party first in one round and boss first in the next,
\* and did both phases in both
C19_Witness ==
    /\ epc = "finished" /\ o.enc_max_rounds >= 2
    /\ \E t \in Trials :
          /\ acted[t][1] = <<"party", "boss">>
          /\ acted[t][2] = <<"boss", "party">>

\* C20: with party_first the party phase of every trial comes before its
\* boss phase in every round, with boss_first the boss phase before the
\* party phase; so under party_first the boss does not act in the round
\* in which it is defeated (no member loses hit points in that round), and
\* under boss_first the boss has acted in every round up to and including
\* the round of its defeat.
C20_InitiativeOrder ==
    epc \notin {"idle", "rejected"} =>
        \A t \in Trials : \A r \in 1..o.enc_max_rounds :
            LET a == acted[t][r]
            IN /\ o.initiative_mode = "party_first" =>
                     /\ a \in {<<>>, <<"party">>, <<"party", "boss">>}
                     /\ ttk[t] = r => a = <<"party">>
               /\ o.initiative_mode = "boss_first" =>
                     /\ a \in {<<>>, <<"boss">>, <<"boss", "party">>}
                     /\ (ttk[t] # Inf /\ r <= ttk[t]) =>
                           a = <<"boss", "party">>

\* under party_first no member loses hit points in the round in which the
\* boss is defeated
NoHarmAfterDefeat ==
    (o.initiative_mode = "party_first" /\ InRound) =>
        \A t \in Trials :
            ttk[t] = rnd => pcs_hp'[t] = pcs_hp[t]

C20_OrderAndNoHarm == [](C20_InitiativeOrder) /\ [][NoHarmAfterDefeat]_vars

\* a boss defeated in the second round: under party_first it has acted in
\* the first round only, under boss_first in both
C20_Witness ==
    /\ epc = "finished" /\ ttk[1] = 2
    /\ \/ /\ o.initiative_mode = "party_first"
          /\ acted[1] = << <<"party", "boss">>, <<"party">> >>
       \/ /\ o.initiative_mode = "boss_first"
          /\ acted[1] = << <<"boss", "party">>, <<"boss", "party">> >>

\* a trial whose TTK is recorded keeps its members' hit points, their
\* alive flags and its wipe flag
FrozenAfterDefeat ==
    (epc \notin {"idle", "rejected"}) =>
        \A t \in Trials :
            ttk[t] # Inf =>
                /\ pcs_hp'[t] = pcs_hp[t]
                /\ pcs_alive'[t] = pcs_alive[t]
                /\ tpk_flags'[t] = tpk_flags[t]

\* no use of an attack is due in a trial whose TTK is recorded, and such a
\* trial goes through no boss phase after the party phase of its defeat
NoBossAfterDefeat ==
    (epc \notin {"idle", "rejected"}) =>
        /\ (epc = "attacks" /\ step <= Len(AttackSteps)) =>
              ttk[AttackSteps[step].t] = Inf
        /\ \A t \in Trials : \A r \in 1..o.enc_max_rounds :
              /\ (ttk[t] # Inf /\ r > ttk[t]) => acted[t][r] = <<>>
              /\ ttk[t] = r =>
                    acted[t][r] \in {<<"party">>, <<"boss", "party">>}

\* C21: the boss phase is skipped for a trial whose boss the party has
\* already brought to HP <= 0: once the TTK of a trial is recorded no
\* attack, lair action or recharge power is resolved for it, and no
\* member's HP or alive flag and not its wipe flag change in that round
\* or in any later one.
C21_BossPhaseSkipped == [](NoBossAfterDefeat) /\ [][FrozenAfterDefeat]_vars

\* one trial is over since round 1 with everyone standing while the boss
\* of the trial next to it has struck a member down in round 2
C21_Witness ==
    /\ o.enc_trials > 1 /\ epc = "recharge" /\ rnd = 2
    /\ ttk[1] = 1 /\ ttk[2] = Inf
    /\ \A j \in Members : pcs_alive[1][j]
    /\ \E j \in Members : ~pcs_alive[2][j]

\* the uses of the attacks resolved so far in this round of trial t
AttackUses(t) ==
    {struck[t][k] : k \in {k \in 1..Len(struck[t]) :
                              struck[t][k].by = "attack"}}

\* lines 1181-1188: the pool as it stands right after it is drawn
PoolDrawn ==
    (epc = "attacks" /\ step = 1) =>
        \A t \in BossOngoing :
            /\ round_pool[t] \subseteq Alive(t)
            /\ Cardinality(round_pool[t]) =
                  Min(Max(1, o.spread_targets), Cardinality(Alive(t)))

\* C22 as stated: every use of an enabled attack is resolved against a
\* member of the round's pool who is alive when the use is resolved, and so
\* the attacks of one round of one trial strike at most spreadTargets
\* distinct members.
C22_StrikesWithinPool ==
    (epc \notin {"idle", "rejected"}) =>
        /\ PoolDrawn
        /\ \A t \in Trials :
              /\ \A e \in AttackUses(t) :
                    e.who \subseteq (round_pool[t] \cap e.living)
              /\ Cardinality(UNION {e.who : e \in AttackUses(t)})
                    <= Max(1, o.spread_targets)

\* C22: the pool holds min(spreadTargets, livingCount) distinct members,
\* all alive when it is drawn; every use of an enabled attack is resolved
\* against a member alive at that moment, a member of the pool as long as
\* any member of the pool lives, any living member once the whole pool is
\* dead.
C22_StrikesLivingPoolFirst ==
    (epc \notin {"idle", "rejected"}) =>
        /\ PoolDrawn
        /\ \A t \in Trials : \A e \in AttackUses(t) :
              /\ e.who \subseteq e.living
              /\ Cardinality(e.who) = 1
              /\ (round_pool[t] \cap e.living # {}) =>
                    e.who \subseteq round_pool[t]

\* with one target per round the boss has struck both members in one round:
\* the first use has killed the pool, the second fell on the other member
C22_Witness ==
    /\ epc = "attacks" /\ o.spread_targets = 1
    /\ \E e \in AttackUses(1) :
          /\ ~(e.who \subseteq round_pool[1])
          /\ round_pool[1] \cap e.living = {}
    /\ Cardinality(UNION {e.who : e \in AttackUses(1)}) = 2

\* no trial is both wiped and won, and a won trial has a member standing
NoWipedVictory ==
    (epc \notin {"idle", "rejected"} /\ o.boss_hp > 0) =>
        /\ \A t \in Trials :
              /\ ~(tpk_flags[t] /\ ttk[t] # Inf)
              /\ ttk[t] = Inf => boss_hp[t] > 0
              /\ ttk[t] # Inf => pcs_down_at_victory[t] < Len(party_table)
        /\ epc = "finished" =>
              \A k \in 1..Len(metrics.pcs_down_at_victory) :
                  metrics.pcs_down_at_victory[k] < Len(party_table)

\* the boss HP of a trial without a living member stays as it is
BossHpKeptAfterWipe ==
    (epc \notin {"idle", "rejected"} /\ o.boss_hp > 0) =>
        \A t \in Trials : Alive(t) = {} => boss_hp'[t] = boss_hp[t]

\* C23: when the boss starts with HP > 0 no trial ends with both its wipe
\* flag set and a finite TTK, because the boss HP of a trial never changes
\* again once every member of it is dead; so every pcs_down_at_victory
\* entry is strictly less than the party size.
C23_WipeExcludesVictory == [](NoWipedVictory) /\ [][BossHpKeptAfterWipe]_vars

\* a finished run in which one trial was wiped in round 1, went through the
\* party phases of the rest of the run and never was won, and another was
\* won with a member down
C23_Witness ==
    /\ epc = "finished" /\ o.boss_hp > 0
    /\ \E t \in Trials :
          /\ tpk_flags[t] /\ ttk[t] = Inf
          /\ acted[t][2] \in {<<"party", "boss">>, <<"boss", "party">>}
    /\ \E k \in 1..Len(metrics.pcs_down_at_victory) :
          metrics.pcs_down_at_victory[k] = 1

\* the trial has been through a party phase in round r
PartyActed(t, r) == \E k \in 1..Len(acted[t][r]) : acted[t][r][k] = "party"

\* a recorded TTK names a round whose party phase left the boss at HP <= 0,
\* an ongoing trial has come out of every party phase so far with the boss
\* above 0, and the result lists one entry per trial with a finite TTK
TtkMarksFirstDefeat ==
    (epc \notin {"idle", "rejected"}) =>
        /\ \A t \in Trials :
              /\ ttk[t] # Inf =>
                    /\ ttk[t] \in 1..o.enc_max_rounds
                    /\ boss_hp[t] <= 0
                    /\ PartyActed(t, ttk[t])
              /\ ttk[t] = Inf =>
                    /\ pcs_down_at_victory[t] = 0
                    /\ \A r \in 1..o.enc_max_rounds :
                          PartyActed(t, r) => boss_hp[t] > 0
        /\ epc = "finished" =>
              LET won == SortedSeq({t \in Trials : ttk[t] # Inf})
              IN /\ Len(metrics.pcs_down_at_victory) = Len(won)
                 /\ \A k \in 1..Len(won) :
                       metrics.pcs_down_at_victory[k] =
                          pcs_down_at_victory[won[k]]

\* the TTK is written in a party phase, together with the number of members
\* dead at that moment, and neither is written again
TtkWrittenOnce ==
    (epc \notin {"idle", "rejected"}) =>
        \A t \in Trials :
            /\ ttk[t] # Inf =>
                  /\ ttk'[t] = ttk[t]
                  /\ pcs_down_at_victory'[t] = pcs_down_at_victory[t]
            /\ (ttk[t] = Inf /\ ttk'[t] # Inf) =>
                  /\ epc \in {"party_first", "party_after"}
                  /\ ttk'[t] = rnd
                  /\ boss_hp[t] > 0 /\ boss_hp'[t] <= 0
                  /\ pcs_down_at_victory'[t] =
                        Cardinality({j \in Members : ~pcs_alive[t][j]})

\* C24: the TTK of a trial is written at most once, in the party phase of
\* the first round in which the boss HP is <= 0 after the party's damage,
\* and pcs_down_at_victory is the number of members dead at that moment;
\* neither changes afterwards, and the result holds exactly one
\* pcs_down_at_victory entry per trial with a finite TTK.
C24_TtkWrittenOnce == [](TtkMarksFirstDefeat) /\ [][TtkWrittenOnce]_vars

\* a finished run: one trial won in round 1 with a member down, untouched
\* by the second round that won the other trial
C24_Witness ==
    /\ epc = "finished" /\ o.enc_trials = 2
    /\ \E t \in Trials : \E u \in Trials :
          /\ ttk[t] = 1 /\ pcs_down_at_victory[t] = 1
          /\ ttk[u] = 2
    /\ Len(metrics.pcs_down_at_victory) = 2

\* every member of the party starts with HP > 0
PartyStartsHealthy == \A j \in Members : party_table[j].HP > 0

\* the alive flag says HP > 0, and whoever was chosen by an attack, a lair
\* action or a recharge power was alive at that moment
AliveIffHpPositive ==
    (epc \notin {"idle", "rejected"} /\ PartyStartsHealthy) =>
        \A t \in Trials :
            /\ \A j \in Members : pcs_alive[t][j] <=> (pcs_hp[t][j] > 0)
            /\ \A k \in 1..Len(struck[t]) :
                  struck[t][k].who \subseteq struck[t][k].living

\* a dead member stays dead, is not chosen and keeps its HP
DeadStaysDead ==
    (epc \notin {"idle", "rejected"} /\ PartyStartsHealthy) =>
        \A t \in Trials : \A j \in Members :
            ~pcs_alive[t][j] =>
                /\ ~pcs_alive'[t][j]
                /\ pcs_hp'[t][j] = pcs_hp[t][j]
                /\ \A k \in (Len(struck[t]) + 1)..Len(struck'[t]) :
                      j \notin struck'[t][k].who

\* C25: when every member starts with HP > 0, the alive flag of a member
\* is true iff its HP is > 0 in every reachable state of a trial; a member
\* once dead never becomes alive again and is never chosen as the target of
\* a later attack, lair action or recharge power, so that its HP never
\* changes again.
C25_AliveIffHp == [](AliveIffHpPositive) /\ [][DeadStaysDead]_vars

\* a member dead since round 1 while the lair action and the recharge power
\* of round 2 have both fallen on the member still standing
C25_Witness ==
    /\ epc = "party_after" /\ rnd = 2 /\ PartyStartsHealthy
    /\ \E j \in Members :
          /\ ~pcs_alive[1][j]
          /\ \E k \in 1..Len(struck[1]) :
                struck[1][k].by = "lair" /\ j \notin struck[1][k].living
          /\ \E k \in 1..Len(struck[1]) : struck[1][k].by = "recharge"

\* the lair actions resolved so far in this round of trial t
LairUses(t) ==
    {k \in 1..Len(struck[t]) : struck[t][k].by = "lair"}

\* right after the lair step of round rnd a trial shows a lair action iff
\* the action is enabled, the round is a multiple of the cadence and the
\* trial is ongoing; between the start of the boss phase, which clears the
\* record of the round before, and that step the round shows none; whoever
\* it chose was alive, and it chose min(lair_targets, living) members
LairOnCadence ==
    (epc \notin {"idle", "rejected"}) =>
        \A t \in Trials :
            /\ epc = "recharge" =>
                  ((LairUses(t) # {})
                   <=> (/\ o.lair_enabled
                        /\ rnd % Max(1, o.lair_every_n) = 0
                        /\ ttk[t] = Inf))
            /\ epc = "attacks" => LairUses(t) = {}
            /\ (o.lair_enabled /\ o.lair_every_n > 1
                /\ rnd < o.lair_every_n) => LairUses(t) = {}
            /\ Cardinality(LairUses(t)) <= 1
            /\ \A k \in LairUses(t) :
                  /\ struck[t][k].who \subseteq struck[t][k].living
                  /\ Cardinality(struck[t][k].who) =
                        Min(o.lair_targets,
                            Cardinality(struck[t][k].living))

\* the lair step takes hit points from the members it chose and from nobody
\* else
LairStep ==
    (epc = "attacks" /\ epc' = "recharge") =>
        \A t \in Trials : \A j \in Members :
            /\ pcs_hp'[t][j] <= pcs_hp[t][j]
            /\ pcs_hp'[t][j] < pcs_hp[t][j] =>
                  \E k \in 1..Len(struck'[t]) :
                      struck'[t][k].by = "lair" /\ j \in struck'[t][k].who

\* C27: with the lair action enabled it is resolved in round r of a trial
\* iff r mod max(1, cadence) = 0 and the trial is still ongoing at its boss
\* phase, so that with a cadence N > 1 it never fires before round N; every
\* resolution chooses exactly min(lairTargets, livingCount) distinct
\* members for its damage, all of them alive when chosen.
C27_LairOnCadence == [](LairOnCadence) /\ [][LairStep]_vars

\* with a cadence of 2 the lair action of round 2 has fallen on one of the
\* two members standing and taken hit points from it
C27_Witness ==
    /\ epc = "recharge" /\ rnd = 2
    /\ o.lair_enabled /\ o.lair_every_n = 2
    /\ \E k \in LairUses(1) :
          /\ Cardinality(struck[1][k].living) = 2
          /\ \E j \in struck[1][k].who :
                \A u \in 1..(k - 1) : j \notin struck[1][u].who
          /\ \E j \in struck[1][k].who :
                pcs_hp[1][j] < 2 * party_table[j].HP

-----------------------------------------------------------------------------
(* Properties of the single-target simulation *)

\* the totals are there for every trial, never negative
McTotalsInv ==
    /\ mpc \in {"round", "attacks", "done"} =>
          /\ DOMAIN total_damage = 1..o.mc_trials
          /\ \A i \in McTrials : total_damage[i] >= 0
    /\ mpc = "done" =>
          /\ Len(mc_totals) = o.mc_trials
          /\ mc_totals = total_damage
          /\ mc_rnd = o.mc_rounds

\* no step of a running simulation lowers a total
McTotalsStep ==
    mpc \in {"round", "attacks"} =>
        \A i \in McTrials : total_damage'[i] >= total_damage[i]

\* C14: the single-target simulation returns exactly mc_trials totals; in
\* every trial the accumulated total is >= 0 and never decreases from one
\* round to the next, the round damage less the temporary hit points being
\* floored at 0.
C14_TotalsNeverDecrease == [](McTotalsInv) /\ [][McTotalsStep]_vars

\* a trial whose second round was taken whole by the temporary hit points
\* next to a trial that took damage in it
C14_Witness ==
    /\ mpc = "done" /\ o.mc_trials > 1 /\ mc_thp_avg > 0
    /\ round_damage[1] > 0 /\ round_damage[1] <= mc_thp_avg
    /\ mc_totals[1] > 0
    /\ round_damage[2] > mc_thp_avg

-----------------------------------------------------------------------------
(* Properties of the two simulators side by side *)

\* what is left of a rider triggered in round since when done rounds are
\* over
Remaining(since, done) ==
    IF since = 0 THEN 0 ELSE Max(0, o.rider_duration - (done - since))

\* the rounds in which a rider triggered in round since is at work
Window(since) ==
    IF since = 0 THEN {} ELSE (since + 1)..(since + o.rider_duration)

\* the boss phases of the encounter that are over
BossPhasesDone == IF epc = "party_after" THEN rnd ELSE rnd - 1

\* the attack counts towards the rider
Qualifies(atk) == atk.kind = "attack" /\ (atk.is_melee \/ ~o.rider_melee_only)

\* the counters stay in 0..rider_duration, hold what is left of the last
\* trigger, and change the rolls of exactly the rounds of its window
RiderCounters ==
    (o.rider_duration >= 1) =>
        /\ (epc \notin {"idle", "rejected"}) =>
              \A t \in Trials : \A j \in Members :
                  /\ rider_rem[t][j] \in 0..o.rider_duration
                  /\ ttk[t] = Inf =>
                        /\ rider_rem[t][j] =
                              Remaining(rider_since[t][j], BossPhasesDone)
                        /\ epc = "attacks" =>
                              ((current_ac(t, j) # party_table[j].AC
                                \/ current_mode(t, j) # o.mode_select)
                               <=> rnd \in Window(rider_since[t][j]))
        /\ (mpc \notin {"idle", "rejected"}) =>
              \A i \in McTrials :
                  /\ rider_remaining[i] \in 0..o.rider_duration
                  /\ rider_remaining[i] = Remaining(mc_rider_since[i], mc_rnd)
                  /\ mpc = "attacks" =>
                        ((mc_current_ac(i) # mc_pc.AC
                          \/ mc_current_mode(i) # o.mode_select)
                         <=> (mc_rnd + 1) \in Window(mc_rider_since[i]))

\* the counters of the encounter, step by step: a use of an attack raises
\* the trigger of its target iff it is a hit by an attack that counts, the
\* end of the boss phase counts down or sets anew, nothing else touches them
RiderStepEnc ==
    (o.rider_duration >= 1 /\ epc \notin {"idle", "rejected"}) =>
        /\ (epc = "attacks" /\ step <= Len(AttackSteps)) =>
              LET atk == ActiveAttacks[AttackSteps[step].atk]
                  u == AttackSteps[step].t
              IN \A t \in Trials : \A j \in Members :
                    /\ (rider_trig'[t][j] /\ ~rider_trig[t][j]) =>
                          /\ t = u
                          /\ Qualifies(atk)
                          /\ pcs_hp'[t][j] < pcs_hp[t][j]
                    /\ (Qualifies(atk) /\ pcs_hp'[t][j] < pcs_hp[t][j]) =>
                          rider_trig'[t][j]
        /\ epc = "recharge" =>
              \A t \in Trials : \A j \in Members :
                  rider_rem'[t][j] =
                     IF rider_trig[t][j] THEN o.rider_duration
                     ELSE Max(0, rider_rem[t][j] - 1)
        /\ epc # "recharge" => rider_rem' = rider_rem

\* the counters of the single-target simulation, step by step
RiderStepMc ==
    (o.rider_duration >= 1 /\ mpc \notin {"idle", "rejected"}) =>
        /\ (mpc = "attacks" /\ mc_atk <= Len(ActiveAttacks)) =>
              LET atk == ActiveAttacks[mc_atk]
              IN \A i \in McTrials :
                    /\ (triggered_rider'[i] /\ ~triggered_rider[i]) =>
                          /\ i = mc_i
                          /\ Qualifies(atk)
                          /\ round_damage'[i] > round_damage[i]
                    /\ (Qualifies(atk) /\ round_damage'[i] > round_damage[i])
                          => triggered_rider'[i]
        /\ (mpc = "attacks" /\ mc_atk > Len(ActiveAttacks)) =>
              \A i \in McTrials :
                  rider_remaining'[i] =
                     IF triggered_rider[i] THEN o.rider_duration
                     ELSE Max(0, rider_remaining[i] - 1)
        /\ ~(mpc = "attacks" /\ mc_atk > Len(ActiveAttacks)) =>
              rider_remaining' = rider_remaining

\* C26: in both simulators a rider counter lies in 0..rider_duration
\* (rider_duration >= 1): at the end of each round it is counted down by
\* one, floored at 0, and then set to rider_duration iff a qualifying hit
\* (an attack-roll hit by a melee attack, or by any attack when the
\* melee-only flag is off) struck the target in this round; a rider
\* triggered in round r changes the boss's rolls against the target in the
\* rounds r+1..r+rider_duration and never in round r itself.
C26_RiderCounters ==
    [](RiderCounters) /\ [][RiderStepEnc /\ RiderStepMc]_vars

\* the encounter in the boss phase of round 3: the rider of 2 rounds that a
\* ranged hit has set in round 1 is at work for the last time
C26_Witness ==
    /\ epc = "attacks" /\ rnd = 3
    /\ o.rider_duration = 2 /\ ~o.rider_melee_only
    /\ rider_since[1][1] = 1 /\ rider_rem[1][1] = 1
    /\ current_mode(1, 1) = "adv" /\ o.mode_select = "normal"

\* the d20 faces on which a save with this bonus fails against this DC: a
\* natural 1 always, a natural 20 never, any other face iff it falls short
FailFaces(dc, bonus) ==
    {f \in 1..20 : f = 1 \/ (f # 20 /\ f + bonus < dc)}

\* the damage a save leaves: all of the rolled damage when it fails, half of
\* it when it succeeds (half points)
SaveLeaves(fails) ==
    {IF fails THEN 2 * d ELSE d : d \in roll_damage(RollExpr)}

SaveFollowsRule(dealt) ==
    /\ k_ref[1] = Cardinality(FailFaces(k_dc, k_bonus))
    /\ dealt = SaveLeaves(k_r1 \in FailFaces(k_dc, k_bonus))

\* C28: in both simulators a saving throw fails on exactly the d20 faces
\* that p_save_fail(DC, save bonus) counts: a natural 1 always fails, a
\* natural 20 always succeeds, any other face fails iff face + bonus < DC;
\* a failed save takes the full rolled damage, a successful save half.
C28_SavesFollowPSaveFail ==
    (kpc = "done" /\ k_kind = "save") =>
        /\ SaveFollowsRule({x.dealt : x \in k_enc})
        /\ SaveFollowsRule({x.dmg : x \in k_mc})

\* a natural 20 against a DC out of reach of the die, resolved by both
\* simulators
C28_Witness ==
    /\ kpc = "done" /\ k_kind = "save"
    /\ k_dc - k_bonus > 20 /\ k_r1 = 20
    /\ k_enc # {} /\ k_mc # {}

\* the face hit_probs reads a pair of d20 from under a roll mode
FaceRead(mode, r1, r2) ==
    IF mode = "normal" THEN r1
    ELSE IF mode = "adv" THEN Max(r1, r2) ELSE Min(r1, r2)

\* what the roll deals and whether it sets the rider, told from the way
\* hit_probs classifies the face read against the armour class: nothing on
\* a miss, the normal sample on a hit, the crunchy crit sample on a crit
AsClassified(mode, ac) ==
    LET c == classify(FaceRead(mode, k_r1, k_r2), k_bonus, ac)
    IN IF ~c[1] THEN {<<0, FALSE>>}
       ELSE IF c[2]
       THEN {<<2 * d, TRUE>> : d \in roll_damage_crunchy_crit(RollExpr)}
       ELSE {<<2 * d, TRUE>> : d \in roll_damage(RollExpr)}

\* C29: in both simulators, for every mode in {normal, adv, dis} and every
\* pair of d20 faces, an attack roll is a miss, a non-crit hit or a crit
\* exactly as hit_probs classifies the chosen face against the armour class
\* the rider has adjusted; a crit deals the crunchy crit sample, a non-crit
\* hit the normal sample, a miss deals 0 and sets no rider.
C29_RollsAsClassified ==
    (kpc = "done" /\ k_kind = "attack") =>
        /\ {<<x.dealt, x.trig>> : x \in k_enc} =
              AsClassified(mode_under_rider(k_on), ac_under_rider(k_ac, k_on))
        /\ {<<x.dmg, x.trig>> : x \in k_mc} =
              AsClassified(mc_mode_under_rider(k_on),
                           mc_ac_under_rider(k_ac, k_on))

\* a pair of faces with a 20 second, rolled with disadvantage that the
\* rider has turned into advantage: a crit in both simulators
C29_Witness ==
    /\ kpc = "done" /\ k_kind = "attack"
    /\ o.mode_select = "dis" /\ k_on
    /\ o.rider_mode = "grant advantage on melee next round"
    /\ k_r1 = 7 /\ k_r2 = 20
    /\ \A x \in k_enc : x.dealt >= 8
    /\ \A x \in k_mc : x.dmg >= 8

-----------------------------------------------------------------------------
(* Properties of the damage expression functions *)

\* the expression under evaluation, parsed
d_expr == parse_damage_expression(d_text)

\* every dice term of the expression has sides
AllLive == LiveDice(d_expr.dice) = d_expr.dice

\* C15: for every expression (negative modifiers, negative dice terms and
\* a leading minus included) the closed-form average equals the exact
\* expectation of the roll over equally likely die faces, and the
\* closed-form crit average equals the exact expectation of the crunchy-crit
\* roll.  Stated over the expressions whose dice all have sides, with the
\* averages in half points: average * ways = 2 * (sum of the rolls over
\* all ways).
C15_AverageIsExpectation ==
    (dpc \in {"crit_averaged", "rolled", "done"} /\ AllLive) =>
        /\ d_avg * FaceCount(d_expr.dice) = 2 * RollTotal(d_expr, FALSE)
        /\ d_avg_crit * FaceCount(d_expr.dice) = 2 * RollTotal(d_expr, TRUE)

\* the expression 1d4-2 evaluated: average 0.5, rolls 0, 0, 1 and 2
C15_Witness ==
    /\ dpc = "done"
    /\ d_text = <<DiceTerm("", 1, 4), NumTerm("-", 2)>>
    /\ d_avg = 1
    /\ RollTotal(d_expr, FALSE) = 3 /\ FaceCount(d_expr.dice) = 4

\* C16: a dice term whose sides value is zero or negative is dropped from
\* every evaluation: the two averages and the two rolls of an expression
\* are those of the expression with all such terms removed, and every
\* result is >= 0.
C16_DeadTermsDropped ==
    LET live == [d_expr EXCEPT !.dice = LiveDice(d_expr.dice)]
    IN /\ dpc \in {"averaged", "crit_averaged", "rolled", "done"} =>
             d_avg = average_damage(live) /\ d_avg >= 0
       /\ dpc \in {"crit_averaged", "rolled", "done"} =>
             /\ d_avg_crit = average_crunchy_crit_damage(live)
             /\ d_avg_crit >= 0
       /\ dpc \in {"rolled", "done"} =>
             d_roll \in roll_damage(live) /\ d_roll >= 0
       /\ dpc = "done" =>
             d_crit \in roll_damage_crunchy_crit(live) /\ d_crit >= 0
       /\ roll_damage(d_expr) = roll_damage(live)
       /\ roll_damage_crunchy_crit(d_expr) = roll_damage_crunchy_crit(live)

\* the expression 2d0 evaluated: averages 1.0 and 1.0, rolls 0 and 0
C16_Witness ==
    /\ dpc = "done"
    /\ d_text = <<DiceTerm("", 2, 0)>>
    /\ d_avg = 2 /\ d_avg_crit = 2 /\ d_roll = 0 /\ d_crit = 0

-----------------------------------------------------------------------------
(* Properties of hit_probs and parse_recharge *)

\* the face an ordered pair of d20 rolls is read as
RefChosen(mode, r1, r2) ==
    IF mode = "adv" THEN (IF r1 >= r2 THEN r1 ELSE r2)
    ELSE IF mode = "dis" THEN (IF r1 <= r2 THEN r1 ELSE r2)
    ELSE r1

\* the ordered pairs of faces, every one as likely as another (for a
\* normal roll a single die: the second face is held at 1)
RefPairs(mode) ==
    IF mode = "normal" THEN {<<r1, 1>> : r1 \in 1..20}
    ELSE (1..20) \X (1..20)

RefCrits(mode) == {p \in RefPairs(mode) : RefChosen(mode, p[1], p[2]) = 20}

RefNonCrits(ac, bonus, mode) ==
    {p \in RefPairs(mode) :
        LET r == RefChosen(mode, p[1], p[2])
        IN r \in 2..19 /\ r + bonus >= ac}

\* C17: for every AC, attack bonus and mode, hit_probs equals the
\* enumeration of the 20 faces (400 ordered pairs read by their highest or
\* lowest face): a chosen natural 1 misses, a natural 20 is a crit, any
\* other face hits iff face + bonus >= AC; pAny = pNonCrit + pCrit and all
\* three lie in [0, 1]; AC 15 with bonus 5, normal, gives 1/20 and 10/20.
C17_HitProbsIsEnumeration ==
    hpc = "done" =>
        /\ h_probs.faces = Cardinality(RefPairs(h_mode))
        /\ h_probs.faces = IF h_mode = "normal" THEN 20 ELSE 400
        /\ h_probs.p_crit = Cardinality(RefCrits(h_mode))
        /\ h_probs.p_noncrit = Cardinality(RefNonCrits(h_ac, h_bonus, h_mode))
        /\ h_probs.p_any = h_probs.p_noncrit + h_probs.p_crit
        /\ h_probs.p_noncrit \in 0..h_probs.faces
        /\ h_probs.p_crit \in 0..h_probs.faces
        /\ h_probs.p_any \in 0..h_probs.faces
        /\ (h_ac = 15 /\ h_bonus = 5 /\ h_mode = "normal") =>
              /\ h_probs.p_crit = 1 /\ h_probs.p_noncrit = 10
              /\ h_probs.faces = 20

\* the example of the claim, and a roll with advantage that only a natural
\* 1 on both dice misses
C17_Witness ==
    /\ hpc = "done"
    /\ \/ /\ h_ac = 15 /\ h_bonus = 5 /\ h_mode = "normal"
          /\ h_probs.p_crit = 1 /\ h_probs.p_noncrit = 10
       \/ /\ h_ac = 3 /\ h_bonus = 15 /\ h_mode = "adv"
          /\ h_probs.p_crit = 39 /\ h_probs.p_any = 399

\* C18 as stated: (7 - k)/6 for a single face k in 2..6, (hi - lo + 1)/6
\* for a range after clamping both ends into 1..6, and 0 for every other
\* input, a single number outside 2..6 included.
C18_ZeroOutsideFaces ==
    rpc = "done" =>
        /\ (r_text.form = "single" /\ r_text.k \in 2..6) =>
              r_prob = 7 - r_text.k
        /\ (r_text.form = "single" /\ r_text.k \notin 2..6) => r_prob = 0
        /\ (r_text.form = "range" /\ r_text.lo <= r_text.hi) =>
              r_prob = Max(1, Min(6, r_text.hi)) - Max(1, Min(6, r_text.lo)) + 1
        /\ r_text.form = "text" => r_prob = 0
        /\ r_prob \in 0..6

\* the ends of a range in order, each clamped into 1..6
RangeLo(t) == Max(1, Min(6, IF t.lo <= t.hi THEN t.lo ELSE t.hi))
RangeHi(t) == Max(1, Min(6, IF t.lo <= t.hi THEN t.hi ELSE t.lo))

\* C18: parse_recharge gives (7 - k)/6 for a single face k in 2..6, and
\* for any other single number the value of the nearest of 2 and 6 (5/6
\* below 2, 1/6 above 6); (hi - lo + 1)/6 for a range after ordering its
\* ends and clamping both into 1..6; 0 for empty or non-numeric text; the
\* result always lies in [0, 1]; "5-6" gives 2/6 and "6" gives 1/6.
C18_ParseRecharge ==
    rpc = "done" =>
        /\ (r_text.form = "single" /\ r_text.k \in 2..6) =>
              r_prob = 7 - r_text.k
        /\ (r_text.form = "single" /\ r_text.k < 2) => r_prob = 5
        /\ (r_text.form = "single" /\ r_text.k > 6) => r_prob = 1
        /\ r_text.form = "range" =>
              r_prob = RangeHi(r_text) - RangeLo(r_text) + 1
        /\ r_text.form = "text" => r_prob = 0
        /\ r_prob \in 0..6
        /\ r_text = RechRange(5, 6) => r_prob = 2
        /\ r_text = RechSingle(6) => r_prob = 1

\* the single numbers 1 and 7 parsed
C18_Witness ==
    /\ rpc = "done" /\ r_text.form = "single"
    /\ \/ r_text.k = 1 /\ r_prob = 5
       \/ r_text.k = 7 /\ r_prob = 1

-----------------------------------------------------------------------------
(* Properties of the auto-tuner *)

CallsOfKind(k) == {i \in 1..Len(calls) : calls[i].kind = k}

NumCalls(k) == Cardinality(CallsOfKind(k))

SearchKinds == {"low", "high", "double", "resim", "bisect"}

KindRank(k) ==
    CASE k = "low" -> 1 [] k = "high" -> 2 [] k = "double" -> 3
      [] k = "resim" -> 4 [] k = "bisect" -> 5 [] k = "final" -> 6
      [] OTHER -> 7

\* the tuner has passed the bracket check without aborting
PastBracket == tpc \in {"bisect", "final", "refresh"} \/ result = "tuned"

\* C3: when the tuner aborts because the target cannot be bracketed, the
\* configured boss HP (options and spin box) is the one from before the
\* tuning call, although the searches overwrote it on the way, and no HP
\* has been chosen.
C3_AbortRestoresBossHp ==
    result = "infeasible" =>
        /\ tpc = "done"
        /\ o.boss_hp = o_before.boss_hp
        /\ spn_boss_hp = o_before.boss_hp
        /\ tuned_hp = 0

C3_Witness ==
    /\ result = "infeasible"
    /\ \E i \in 1..Len(calls) : calls[i].hp # o_before.boss_hp

C4_WitnessInfiniteHigh == tpc = "bisect" /\ iters = 0 /\ med_high = Inf

\* no boss HP has a median at the target: the party deals no damage, or the
\* target lies above the round cap, the largest finite median there is
TargetUnreachable ==
    \/ MeanRoundDamage(party_table, party_dpr_table, party_nova_table,
                       o_before) = 0
    \/ o_before.tune_target_median > o_before.enc_max_rounds * 100

\* C5: given a target median no boss HP achieves, the tuner reports
\* infeasibility and installs no HP.
C5_UnreachableTargetIsInfeasible ==
    (tpc = "done" /\ TargetUnreachable) =>
        /\ result = "infeasible"
        /\ spn_boss_hp = o_before.boss_hp
        /\ o.boss_hp = o_before.boss_hp

\* the failing input: a target past the round cap, and an HP installed
C5_Witness ==
    /\ tpc = "done" /\ result = "tuned"
    /\ o_before.tune_target_median > o_before.enc_max_rounds * 100
    /\ MeanRoundDamage(party_table, party_dpr_table, party_nova_table,
                       o_before) > 0
    /\ spn_boss_hp # o_before.boss_hp

\* the high bound when the bracket was checked, and the median it had
BracketHighHp == calls[2 + attempts].hp

BracketHighMed == calls[2 + attempts].med

C7_TunedHpIsCeiling ==
    (tpc = "refresh" \/ result = "tuned") => tuned_hp = CeilHp(high)

\* C7 amended: the tuned HP is the final high bound rounded to the nearest
\* integer (ties to even), the HP at which that bound's median was
\* simulated; the reported median and wipe probability are those of one
\* simulation at that HP with the full trial count.
C7_TunedHpIsRoundedHigh ==
    (tpc = "refresh" \/ result = "tuned") =>
        /\ tuned_hp = RoundHalfEven(high)
        /\ \E i \in 1..Len(calls) :
              /\ calls[i].kind \in SearchKinds
              /\ calls[i].hp = tuned_hp
              /\ calls[i].med = med_high
        /\ \A i \in 1..Len(calls) :
              calls[i].kind \in SearchKinds =>
                  calls[i].trials = QuickTrials(o_before.enc_trials)
        /\ NumCalls("final") = 1
        /\ \A i \in CallsOfKind("final") :
              /\ calls[i].hp = tuned_hp
              /\ calls[i].trials = o_before.enc_trials
              /\ calls[i].med = med
              /\ calls[i].tpk = tpk
        /\ (tpc = "refresh" => lbl_ttk_median = med /\ lbl_tpk = tpk)

\* the high bound ends strictly between two integers, below the half
C7_Witness ==
    /\ result = "tuned"
    /\ high.f # 0 /\ 2 * high.f < Den
    /\ tuned_hp = high.i

\* The tuner's choice recomputed from the target, the HP before the call
\* and the medians of the search simulations alone (0: no HP is chosen).
RECURSIVE ReplayEscalate(_, _, _, _)
ReplayEscalate(k, h, att, t) ==
    IF calls[k].med < t /\ att < MaxDoublings
    THEN ReplayEscalate(k + 1, HpDouble(h), att + 1, t)
    ELSE [k |-> k, high |-> h]

RECURSIVE ReplayBisect(_, _, _, _, _)
ReplayBisect(k, lo, hi, it, t) ==
    IF it = MaxBisect THEN hi
    ELSE LET mid == HpMid(lo, hi)
             mm == calls[k + 1].med
             lo2 == IF mm >= t THEN lo ELSE mid
             hi2 == IF mm >= t THEN mid ELSE hi
         IN IF Abs(mm - t) < Tolerance THEN hi2
            ELSE ReplayBisect(k + 1, lo2, hi2, it + 1, t)

ReplayHp(t, hp0) ==
    LET e == ReplayEscalate(2, Hp(Max(MinHighHp, hp0)), 0, t)
        again == calls[1].med > t
        k == IF again THEN e.k + 1 ELSE e.k
        ml == IF again THEN calls[k].med ELSE calls[1].med
        mh == calls[e.k].med
    IN IF ~(ml <= t /\ t <= mh) THEN 0
       ELSE RoundHalfEven(ReplayBisect(k, Hp(1), e.high, 0, t))

C9_OnlyListedSimulations ==
    /\ \A i \in 1..Len(calls) : calls[i].kind \in SearchKinds \cup {"final"}
    /\ Len(calls) <= 2 + MaxDoublings + 1 + MaxBisect + 1

\* C9 amended: the tuner issues its simulations one after another in the
\* order: the two initial ones, at most 12 doublings, at most one
\* re-simulation of the low bound, at most 16 bisections, the one final
\* full-trial run, and then, when the tuning succeeded, one more full-trial
\* simulation by the refresh of the encounter panel; it always comes to an
\* end, after 33 simulations at most.
C9_BoundedSimulationSequence ==
    /\ NumCalls("low") <= 1 /\ NumCalls("high") <= 1
    /\ NumCalls("double") <= MaxDoublings /\ NumCalls("double") = attempts
    /\ NumCalls("resim") <= 1
    /\ NumCalls("bisect") <= MaxBisect /\ NumCalls("bisect") = iters
    /\ NumCalls("final") <= 1 /\ NumCalls("refresh") <= 1
    /\ \A i, j \in 1..Len(calls) :
          i < j => KindRank(calls[i].kind) <= KindRank(calls[j].kind)
    /\ Len(calls) <= 2 + MaxDoublings + 1 + MaxBisect + 1 + 1
    /\ tpc # "idle" => NumCalls("low") = 1
    /\ tpc \notin {"idle", "sim_high"} => NumCalls("high") = 1
    /\ result = "tuned" => NumCalls("final") = 1 /\ NumCalls("refresh") = 1
    /\ result = "infeasible" => NumCalls("bisect") + NumCalls("final")
                                  + NumCalls("refresh") = 0
    /\ tpc # "done" => ENABLED NextTune

\* the longest run: 12 doublings, the re-simulation, 16 bisections, the
\* final run and the refresh
C9_Witness ==
    /\ result = "tuned"
    /\ Len(calls) = 2 + MaxDoublings + 1 + MaxBisect + 1 + 1

\* one pass of the bisection replaces exactly one bound by the midpoint
BisectStep ==
    (tpc = "bisect" /\ iters' = iters + 1) =>
        LET mid == HpMid(low, high)
        IN /\ \/ (high' = mid /\ low' = low /\ med_low' = med_low
                    /\ med_high' = med_mid' /\ med_mid' >= target)
              \/ (low' = mid /\ high' = high /\ med_high' = med_high
                    /\ med_low' = med_mid' /\ med_mid' < target)
           /\ HpLeq(low, mid) /\ HpLeq(mid, high)

BisectInv ==
    /\ PastBracket =>
          /\ HpLeq(low, high)
          /\ med_low <= target /\ target <= med_high
          /\ med_low # Inf
    \* the loop goes on only past a midpoint that is not within 0.05, and
    \* ends at the first that is or after the 16th pass
    /\ (tpc = "bisect" /\ iters > 0) =>
          (Abs(med_mid - target) >= Tolerance /\ iters < MaxBisect)
    /\ (PastBracket /\ tpc # "bisect") =>
          (Abs(med_mid - target) < Tolerance \/ iters = MaxBisect)

\* C10: throughout the bisection low <= high and the recorded medians
\* satisfy median(low) <= target <= median(high); each pass replaces exactly
\* one bound by the midpoint; the loop stops at the first midpoint whose
\* median is within 0.05 of the target; an HP whose median is infinite is
\* only ever taken as the high bound.
C10_BisectionInvariant == [](BisectInv) /\ [][BisectStep]_vars

\* a midpoint at which the boss survives the round cap became the high bound
C10_Witness ==
    /\ tpc = "bisect" /\ iters >= 2
    /\ med_mid = Inf /\ med_high = Inf
    /\ med_low < target

\* the tuner has returned with the trial count it found
TrialsRestored ==
    (tpc = "done") => o.enc_trials = o_before.enc_trials

\* the largest high bound the search can reach: max(10, original HP)
\* doubled MaxDoublings times
HighBoundCap == Max(MinHighHp, o_before.boss_hp) * (2 ^ MaxDoublings)

\* on success the tuned HP lies between 1 and the largest high bound
TunedHpInRange ==
    (tpc = "done" /\ result = "tuned") =>
        tuned_hp >= 1 /\ tuned_hp <= HighBoundCap

\* C30: after the auto-tuner returns on any path (infeasible abort, failed
\* final simulation or success) the configured trial count enc_trials
\* equals its value before the call, although the simulations of the
\* search overwrite boss_hp and enc_trials in the shared options; on
\* success boss_hp equals the tuned HP, which is at least 1 and at most
\* max(10, original HP) * 2^12.
C30_TrialsRestoredHpInstalled ==
    /\ TrialsRestored
    /\ TunedHpInRange
    /\ (tpc = "done" /\ result = "tuned") => o.boss_hp = tuned_hp

\* the tuner has returned with a tuned HP beyond the range of the HP box
C30_Witness ==
    /\ tpc = "done" /\ result = "tuned"
    /\ tuned_hp > SpinHpMax
    /\ o.enc_trials = o_before.enc_trials

=============================================================================
